---- MODULE Spec2Model ----
(***************************************************************************)
(* A model of the knowledge-graph construction engine of                   *)
(* knowledge_graph.py (class IssueKnowledgeGraph).                         *)
(*                                                                         *)
(* Python strings are sequences of one-character strings, so that split,   *)
(* strip, startswith and the f-string identifiers are computed, not        *)
(* assumed.  Floats are exact rationals <<numerator, denominator>>; the    *)
(* quotient 0/0 (IEEE NaN) is <<0, 0>>.                                    *)
(***************************************************************************)
EXTENDS Integers, Sequences, FiniteSets, TLC

(***************************************************************************)
(* Bounds of the model                                                     *)
(***************************************************************************)
MaxTickets == 3
MaxNodes == 3
MaxLines == 4
MaxBuilds == 2

(***************************************************************************)
(* Python values                                                           *)
(***************************************************************************)
\* Python's None: a string no Python string equals (its one element is not a character)
None == <<"<None>">>

\* bool(v) of a string or None
Truthy(v) == v # None /\ v # <<>>

\* a or b
PyOr(a, b) == IF Truthy(a) THEN a ELSE b

\* d.get(key): None when the key is absent
Get(d, key) == IF key \in DOMAIN d THEN d[key] ELSE None

\* d.get(key, dflt)
GetDefault(d, key, dflt) == IF key \in DOMAIN d THEN d[key] ELSE dflt

\* str.isspace of one character
IsSpace(c) == c \in {" ", "\t"}

RECURSIVE LStrip(_)
\* s.lstrip()
LStrip(s) == IF s # <<>> /\ IsSpace(Head(s)) THEN LStrip(Tail(s)) ELSE s

RECURSIVE RStrip(_)
\* s.rstrip()
RStrip(s) == IF s # <<>> /\ IsSpace(s[Len(s)]) THEN RStrip(SubSeq(s, 1, Len(s) - 1)) ELSE s

\* s.strip()
Strip(s) == RStrip(LStrip(s))

\* s.startswith(p)
StartsWith(s, p) == Len(s) >= Len(p) /\ SubSeq(s, 1, Len(p)) = p

RECURSIVE SplitFrom(_, _, _)
\* the pieces of s split at sep, cur being the piece read so far
SplitFrom(s, sep, cur) ==
    IF s = <<>> THEN <<cur>>
    ELSE IF Head(s) = sep THEN <<cur>> \o SplitFrom(Tail(s), sep, <<>>)
    ELSE SplitFrom(Tail(s), sep, Append(cur, Head(s)))

\* s.split(sep), sep one character
Split(s, sep) == SplitFrom(s, sep, <<>>)

RECURSIVE Join(_, _)
\* sep.join(parts), sep one character
Join(parts, sep) ==
    IF parts = <<>> THEN <<>>
    ELSE IF Len(parts) = 1 THEN parts[1]
    ELSE parts[1] \o <<sep>> \o Join(Tail(parts), sep)

\* one decimal digit as a character
DigitChar(d) == <<"0", "1", "2", "3", "4", "5", "6", "7", "8", "9">>[d + 1]

RECURSIVE IntToStr(_)
\* str(n) of a natural number
IntToStr(n) == IF n < 10 THEN <<DigitChar(n)>> ELSE IntToStr(n \div 10) \o <<DigitChar(n % 10)>>

(***************************************************************************)
(* _extract_code_sections                                                  *)
(***************************************************************************)
\* the backquote character (a TLA+ string cannot hold a backquote)
BQ == "bq"

\* code_block_markers
Fence == <<BQ, BQ, BQ>>
Tilde == <<"~", "~", "~">>
Indent == <<" ", " ", " ", " ">>
code_block_markers == <<Fence, Tilde, Indent>>

\* any(line.strip().startswith(marker) for marker in code_block_markers[:2])
IsFenceLine(line) == \E m \in 1..2 : StartsWith(Strip(line), code_block_markers[m])

\* the loop's state before the first line
CodeInit == [in_code_block |-> FALSE, current_block |-> <<>>, code_sections |-> <<>>]

\* current_block flushed into code_sections when it is not empty
Flush(st) ==
    IF st.current_block # <<>>
    THEN [st EXCEPT !.code_sections = Append(@, Join(st.current_block, "\n")),
                    !.current_block = <<>>]
    ELSE st

\* an indented line opens a block, and every non-indented line, blank ones too, closes it
IndentRuleBlankCloses(st, line) ==
    IF ~st.in_code_block /\ StartsWith(line, Indent)
    THEN [st EXCEPT !.in_code_block = TRUE]
    ELSE IF st.in_code_block /\ ~StartsWith(line, Indent)
    THEN [Flush(st) EXCEPT !.in_code_block = FALSE]
    ELSE st

\* lines 108-114: an indented line opens a block, a non-indented non-blank line closes it
IndentRule(st, line) ==
    IF ~st.in_code_block /\ StartsWith(line, Indent)
    THEN [st EXCEPT !.in_code_block = TRUE]
    ELSE IF st.in_code_block /\ ~StartsWith(line, Indent) /\ Strip(line) # <<>>
    THEN [Flush(st) EXCEPT !.in_code_block = FALSE]
    ELSE st

\* lines 116-120: inside a block the stripped line is kept
Capture(st, line) ==
    IF st.in_code_block /\ ~(\E m \in 1..3 : StartsWith(Strip(line), code_block_markers[m]))
    THEN [st EXCEPT !.current_block = Append(@, Strip(line))]
    ELSE st

\* one iteration of "for line in lines"
CodeStep(st, line) ==
    IF IsFenceLine(line)
    THEN [(IF st.in_code_block THEN Flush(st) ELSE st) EXCEPT !.in_code_block = ~st.in_code_block]
    ELSE Capture(IndentRule(st, line), line)

RECURSIVE CodeLoop(_, _)
\* the loop over all lines
CodeLoop(st, lines) == IF lines = <<>> THEN st ELSE CodeLoop(CodeStep(st, Head(lines)), Tail(lines))

\* _extract_code_sections(text)
ExtractCodeSections(text) == Flush(CodeLoop(CodeInit, Split(text, "\n"))).code_sections

(***************************************************************************)
(* parse_ticket_with_rules                                                 *)
(***************************************************************************)
\* the literal parts of the fragment identifiers
S_summary == <<"_", "s", "u", "m", "m", "a", "r", "y">>
S_description == <<"_", "d", "e", "s", "c", "r", "i", "p", "t", "i", "o", "n">>
S_priority == <<"_", "p", "r", "i", "o", "r", "i", "t", "y">>
S_code == <<"_", "c", "o", "d", "e", "_">>

\* the section names
SUMMARY == <<"S", "u", "m", "m", "a", "r", "y">>
DESCRIPTION == <<"D", "e", "s", "c", "r", "i", "p", "t", "i", "o", "n">>
PRIORITY == <<"P", "r", "i", "o", "r", "i", "t", "y">>
CODE == <<"C", "o", "d", "e">>

\* TicketNode(id, section, content)
TicketNode(id, section, content) == [id |-> id, section |-> section, content |-> content]

\* line 45: 'id' not in ticket raises ValueError
ParseRaises(ticket) == "id" \notin DOMAIN ticket

\* an alias order that tries 'title' first
SummaryContentTitleFirst(ticket) ==
    PyOr(PyOr(GetDefault(ticket, "title", <<>>), Get(ticket, "Summary")), Get(ticket, "summary"))

\* line 51
SummaryContent(ticket) ==
    PyOr(PyOr(Get(ticket, "Summary"), Get(ticket, "summary")), GetDefault(ticket, "title", <<>>))

\* line 60
DescriptionContent(ticket) ==
    PyOr(PyOr(Get(ticket, "Description"), Get(ticket, "description")), GetDefault(ticket, "text", <<>>))

\* line 69
PriorityContent(ticket) == PyOr(Get(ticket, "Priority"), GetDefault(ticket, "priority", <<>>))

\* lines 78-85: one Code node per extracted section, numbered from 0
CodeNodes(ticket) ==
    IF Truthy(DescriptionContent(ticket))
    THEN LET code_sections == ExtractCodeSections(DescriptionContent(ticket))
         IN  [n \in 1..Len(code_sections) |->
                 TicketNode(ticket.id \o S_code \o IntToStr(n - 1), CODE, code_sections[n])]
    ELSE <<>>

\* a fragment order that puts the Description before the Summary
ParseTicketWithRulesDescriptionFirst(ticket) ==
    (IF Truthy(DescriptionContent(ticket))
     THEN <<TicketNode(ticket.id \o S_description, DESCRIPTION, DescriptionContent(ticket))>>
     ELSE <<>>)
    \o (IF Truthy(SummaryContent(ticket))
        THEN <<TicketNode(ticket.id \o S_summary, SUMMARY, SummaryContent(ticket))>> ELSE <<>>)
    \o (IF Truthy(PriorityContent(ticket))
        THEN <<TicketNode(ticket.id \o S_priority, PRIORITY, PriorityContent(ticket))>> ELSE <<>>)
    \o CodeNodes(ticket)

\* parse_ticket_with_rules(ticket), for a ticket that has an 'id'
ParseTicketWithRules(ticket) ==
    (IF Truthy(SummaryContent(ticket))
     THEN <<TicketNode(ticket.id \o S_summary, SUMMARY, SummaryContent(ticket))>> ELSE <<>>)
    \o (IF Truthy(DescriptionContent(ticket))
        THEN <<TicketNode(ticket.id \o S_description, DESCRIPTION, DescriptionContent(ticket))>>
        ELSE <<>>)
    \o (IF Truthy(PriorityContent(ticket))
        THEN <<TicketNode(ticket.id \o S_priority, PRIORITY, PriorityContent(ticket))>> ELSE <<>>)
    \o CodeNodes(ticket)

\* what a call of _extract_section_with_llm gives when it raises instead of returning
Raised == <<"<raised>">>

\* _extract_section_with_llm, the hook for the LLM integration: llm gives, for each section
\* name, the text the method returns or Raised
ExtractSectionWithLlm(llm, ticket, section) == llm[section.name]

\* str.lower of one character, over the letters the section names use
LowerChar(c) ==
    CASE c = "S" -> "s" [] c = "D" -> "d" [] c = "P" -> "p" [] c = "C" -> "c" [] c = "N" -> "n"
      [] OTHER -> c

\* s.lower()
Lower(s) == [n \in 1..Len(s) |-> LowerChar(s[n])]

RECURSIVE LlmNodes(_, _, _)
\* the loop of parse_ticket_with_llm over the template's sections; an exception ends the
\* loop (lines 146-147) and the nodes appended before it are returned
LlmNodes(llm, ticket, sections) ==
    IF sections = <<>> THEN <<>>
    ELSE LET section_content == ExtractSectionWithLlm(llm, ticket, Head(sections))
         IN  IF section_content = Raised THEN <<>>
             ELSE (IF Truthy(section_content)
                   THEN <<TicketNode(ticket.id \o <<"_">> \o Lower(Head(sections).name),
                                     Head(sections).name, section_content)>>
                   ELSE <<>>)
                  \o LlmNodes(llm, ticket, Tail(sections))

\* parse_ticket_with_llm(ticket, template)
ParseTicketWithLlm(llm, ticket, template) ==
    LlmNodes(llm, ticket, GetDefault(template, "sections", <<>>))

(***************************************************************************)
(* construct_ticket_tree                                                   *)
(***************************************************************************)
\* TicketTree(id, nodes, edges)
TicketTree(id, nodes, edges) == [id |-> id, nodes |-> nodes, edges |-> edges]

\* a root choice that ignores the sections: always nodes[0]
RootIndexFirst(nodes) == 1

\* the position of next(node for node in nodes if node.section == SUMMARY, nodes[0])
RootIndex(nodes) ==
    IF \E p \in 1..Len(nodes) : nodes[p].section = SUMMARY
    THEN CHOOSE p \in 1..Len(nodes) :
             /\ nodes[p].section = SUMMARY
             /\ \A q \in 1..(p - 1) : nodes[q].section # SUMMARY
    ELSE 1

\* root_node.id.split('_')[0]
TreeId(root_node) == Split(root_node.id, "_")[1]

\* node != root_node: the dataclass's generated __eq__ compares the three fields
NodeNe(node, root_node) == node # root_node

\* a "has_code" edge taken from the last Description node instead of the first
HasCodeEdgesLastDescription(nodes, node) ==
    IF node.section = CODE /\ \E p \in 1..Len(nodes) : nodes[p].section = DESCRIPTION
    THEN LET p == CHOOSE p \in 1..Len(nodes) :
                      /\ nodes[p].section = DESCRIPTION
                      /\ \A q \in (p + 1)..Len(nodes) : nodes[q].section # DESCRIPTION
         IN  <<<<nodes[p].id, node.id, "has_code">>>>
    ELSE <<>>

\* lines 174-179: the "has_code" edge of a Code node, from the first Description node
HasCodeEdges(nodes, node) ==
    IF node.section = CODE /\ \E p \in 1..Len(nodes) : nodes[p].section = DESCRIPTION
    THEN LET p == CHOOSE p \in 1..Len(nodes) :
                      /\ nodes[p].section = DESCRIPTION
                      /\ \A q \in 1..(p - 1) : nodes[q].section # DESCRIPTION
         IN  <<<<nodes[p].id, node.id, "has_code">>>>
    ELSE <<>>

\* "contains" edges that start at the ticket id instead of the root fragment's id
NodeEdgesFromTicketId(nodes, root_node, node) ==
    (IF NodeNe(node, root_node) THEN <<<<TreeId(root_node), node.id, "contains">>>> ELSE <<>>)
    \o HasCodeEdges(nodes, node)

\* one iteration of "for node in nodes": the edges it appends
NodeEdges(nodes, root_node, node) ==
    (IF NodeNe(node, root_node) THEN <<<<root_node.id, node.id, "contains">>>> ELSE <<>>)
    \o HasCodeEdges(nodes, node)

RECURSIVE TreeEdges(_, _, _)
\* the edges appended by the iterations from position p on
TreeEdges(nodes, root_node, p) ==
    IF p > Len(nodes) THEN <<>>
    ELSE NodeEdges(nodes, root_node, nodes[p]) \o TreeEdges(nodes, root_node, p + 1)

\* construct_ticket_tree(nodes)
ConstructTicketTree(nodes) ==
    IF nodes = <<>> THEN TicketTree(<<>>, <<>>, <<>>)
    ELSE LET root_node == nodes[RootIndex(nodes)]
         IN  TicketTree(TreeId(root_node), nodes, TreeEdges(nodes, root_node, 1))

\* the slice s[:n]
Prefix(s, n) == SubSeq(s, 1, IF Len(s) < n THEN Len(s) ELSE n)

RECURSIVE TitleFrom(_, _)
\* the loop of get_ticket_title from position p on
TitleFrom(tree, p) ==
    IF p > Len(tree.nodes) THEN tree.id
    ELSE IF tree.nodes[p].section = SUMMARY THEN tree.nodes[p].content
    ELSE IF tree.nodes[p].section = DESCRIPTION THEN Prefix(tree.nodes[p].content, 50)
    ELSE TitleFrom(tree, p + 1)

\* get_ticket_title(tree)
GetTicketTitle(tree) == TitleFrom(tree, 1)

(***************************************************************************)
(* Floats, cosine_similarity and the embedding provider                    *)
(***************************************************************************)
\* IEEE NaN, the quotient 0.0 / 0.0
NaN == <<0, 0>>

\* 0.0 and 1.0
FloatZero == <<0, 1>>
FloatOne == <<1, 1>>

IsNaN(x) == x[2] = 0

\* a <= b of two floats: every comparison with NaN is False
FloatLE(a, b) == ~IsNaN(a) /\ ~IsNaN(b) /\ a[1] * b[2] <= b[1] * a[2]

\* a >= b of two floats
FloatGE(a, b) == FloatLE(b, a)

RECURSIVE Dot(_, _)
\* np.dot(vec1, vec2) of two vectors of one length
Dot(vec1, vec2) ==
    IF vec1 = <<>> THEN 0 ELSE Head(vec1) * Head(vec2) + Dot(Tail(vec1), Tail(vec2))

\* the square root of a perfect square
Sqrt(n) == CHOOSE r \in 0..n : r * r = n

\* np.linalg.norm(vec)
Norm(vec) == Sqrt(Dot(vec, vec))

\* x / y of two floats that hold integers: numpy gives nan for 0.0 / 0.0, with a warning and no exception
FloatDiv(x, y) == <<x, y>>

\* cosine_similarity(vec1, vec2)
CosineSimilarity(vec1, vec2) == FloatDiv(Dot(vec1, vec2), Norm(vec1) * Norm(vec2))

\* the representative texts the provider knows
T_login == <<"l", "o", "g", "i", "n">>
T_logon == <<"l", "o", "g", "o", "n">>
T_void == <<"v", "o", "i", "d">>
T_boom == <<"b", "o", "o", "m">>

\* EmbeddingModel.embed(text): a deterministic provider that returns a vector or raises
Embed(text) ==
    CASE text = T_login -> [ok |-> TRUE, vec |-> <<3, 4>>]
      [] text = T_logon -> [ok |-> TRUE, vec |-> <<4, 3>>]
      [] text = T_void -> [ok |-> TRUE, vec |-> <<0, 0>>]
      [] text = T_boom -> [ok |-> FALSE, vec |-> <<>>]
      [] OTHER -> [ok |-> TRUE, vec |-> <<1, 0>>]

\* the number of embed calls calculate_similarity makes for the first and the second tree
EmbedCalls(tree1, tree2) ==
    IF Embed(GetTicketTitle(tree1)).ok THEN <<1, 1>> ELSE <<1, 0>>

\* calculate_similarity(tree1, tree2): 0.0 when an embed call raises
CalculateSimilarity(tree1, tree2) ==
    LET embedding1 == Embed(GetTicketTitle(tree1))
        embedding2 == Embed(GetTicketTitle(tree2))
    IN  IF embedding1.ok /\ embedding2.ok
        THEN CosineSimilarity(embedding1.vec, embedding2.vec)
        ELSE FloatZero

\* line 194: similarity >= self.similarity_threshold
Emits(similarity, threshold) == FloatGE(similarity, threshold)

(***************************************************************************)
(* find_explicit_connections                                               *)
(***************************************************************************)
\* LinkTriples with a link that repeats an earlier link of the ticket left out
LinkTriplesDeduplicated(ticket) ==
    IF "links" \in DOMAIN ticket
    THEN LET kept == SelectSeq([l \in 1..Len(ticket.links) |-> l],
                               LAMBDA l : \A m \in 1..(l - 1) : ticket.links[m] # ticket.links[l])
         IN  [n \in 1..Len(kept) |->
                 <<ticket.id, ticket.links[kept[n]].ticket_id, ticket.links[kept[n]].relationship>>]
    ELSE <<>>

\* the triples of one ticket's links
LinkTriples(ticket) ==
    IF "links" \in DOMAIN ticket
    THEN [l \in 1..Len(ticket.links) |->
             <<ticket.id, ticket.links[l].ticket_id, ticket.links[l].relationship>>]
    ELSE <<>>

\* ticket['id'], link['ticket_id'] or link['relationship'] raises KeyError
LinkRaises(ticket) ==
    /\ "links" \in DOMAIN ticket
    /\ \E l \in 1..Len(ticket.links) :
          \/ "id" \notin DOMAIN ticket
          \/ "ticket_id" \notin DOMAIN ticket.links[l]
          \/ "relationship" \notin DOMAIN ticket.links[l]

\* find_explicit_connections(tickets) raises
FindExplicitRaises(tickets) == \E n \in 1..Len(tickets) : LinkRaises(tickets[n])

RECURSIVE FindExplicitConnections(_)
\* find_explicit_connections(tickets), when it does not raise
FindExplicitConnections(tickets) ==
    IF tickets = <<>> THEN <<>>
    ELSE LinkTriples(Head(tickets)) \o FindExplicitConnections(Tail(tickets))

(***************************************************************************)
(* __init__                                                                *)
(***************************************************************************)
\* ThresholdInRange without the upper bound
ThresholdNotNegative(threshold) == FloatLE(FloatZero, threshold)

\* line 34: 0 <= threshold <= 1
ThresholdInRange(threshold) == FloatLE(FloatZero, threshold) /\ FloatLE(threshold, FloatOne)

(***************************************************************************)
(* create_networkx_graph (example_usage.py)                                *)
(***************************************************************************)
\* nx.MultiDiGraph(): the nodes with their attributes, and the edges in the order added
EmptyGraph == [nodes |-> <<>>, edges |-> <<>>]

\* the attributes of a node; None stands for an attribute the node does not have
NodeAttrs(section, content, label) == [section |-> section, content |-> content, label |-> label]

\* the attributes of an edge; None stands for an attribute the edge does not have
EdgeAttrs(type, relationship, similarity) ==
    [type |-> type, relationship |-> relationship, similarity |-> similarity]

\* G.add_node(n, **attrs): the node is created, or its attributes are overwritten
AddNode(g, n, attrs) ==
    [g EXCEPT !.nodes = [x \in (DOMAIN g.nodes) \cup {n} |-> IF x = n THEN attrs ELSE g.nodes[x]]]

\* the nodes of G.add_edge(u, v): a missing end is created as a node without attributes
WithEnd(g, n) == IF n \in DOMAIN g.nodes THEN g ELSE AddNode(g, n, NodeAttrs(None, None, None))

\* G.add_edge(u, v, **attrs)
AddEdge(g, u, v, attrs) ==
    [WithEnd(WithEnd(g, u), v) EXCEPT !.edges = Append(g.edges, [u |-> u, v |-> v, attrs |-> attrs])]

RECURSIVE AddTreeNodes(_, _, _)
\* lines 19-25: the nodes of tree from position p on
AddTreeNodes(g, tree, p) ==
    IF p > Len(tree.nodes) THEN g
    ELSE LET node == tree.nodes[p]
             label == node.section \o <<"\n">> \o Prefix(node.content, 30) \o <<".", ".", ".">>
         IN  AddTreeNodes(AddNode(g, <<tree.id, node.id>>,
                                  NodeAttrs(node.section, node.content, label)), tree, p + 1)

RECURSIVE AddTreeEdges(_, _, _)
\* lines 28-32: the hierarchical edges of tree from position e on
AddTreeEdges(g, tree, e) ==
    IF e > Len(tree.edges) THEN g
    ELSE AddTreeEdges(AddEdge(g, <<tree.id, tree.edges[e][1]>>, <<tree.id, tree.edges[e][2]>>,
                              EdgeAttrs("hierarchical", tree.edges[e][3], None)), tree, e + 1)

RECURSIVE AddTrees(_, _, _)
\* lines 18-32: the trees from position m on
AddTrees(g, ts, m) ==
    IF m > Len(ts) THEN g
    ELSE AddTrees(AddTreeEdges(AddTreeNodes(g, ts[m], 1), ts[m], 1), ts, m + 1)

\* (ticket, f"{ticket}_summary") and (ticket, f"{ticket}_description")
SummaryKey(ticket) == <<ticket, ticket \o S_summary>>
DescriptionKey(ticket) == <<ticket, ticket \o S_description>>

\* lines 37-46: the edges of one explicit connection
AddExplicit(g, conn) ==
    LET g1 == AddEdge(g, SummaryKey(conn[1]), SummaryKey(conn[2]),
                      EdgeAttrs("explicit", conn[3], None))
    IN  IF DescriptionKey(conn[1]) \in DOMAIN g1.nodes /\ DescriptionKey(conn[2]) \in DOMAIN g1.nodes
        THEN AddEdge(g1, DescriptionKey(conn[1]), DescriptionKey(conn[2]),
                     EdgeAttrs("explicit", conn[3], None))
        ELSE g1

\* lines 50-63: the edges of one implicit connection
AddImplicit(g, conn) ==
    IF FloatGE(conn[3], <<4, 5>>)
    THEN LET g1 == IF SummaryKey(conn[1]) \in DOMAIN g.nodes /\ SummaryKey(conn[2]) \in DOMAIN g.nodes
                   THEN AddEdge(g, SummaryKey(conn[1]), SummaryKey(conn[2]),
                                EdgeAttrs("implicit", None, conn[3]))
                   ELSE g
         IN  IF DescriptionKey(conn[1]) \in DOMAIN g1.nodes
                /\ DescriptionKey(conn[2]) \in DOMAIN g1.nodes
             THEN AddEdge(g1, DescriptionKey(conn[1]), DescriptionKey(conn[2]),
                          EdgeAttrs("implicit", None, conn[3]))
             ELSE g1
    ELSE g

RECURSIVE AddExplicitFrom(_, _, _)
\* the loop of line 35 from position n on
AddExplicitFrom(g, conns, n) ==
    IF n > Len(conns) THEN g ELSE AddExplicitFrom(AddExplicit(g, conns[n]), conns, n + 1)

RECURSIVE AddImplicitFrom(_, _, _)
\* the loop of line 49 from position n on
AddImplicitFrom(g, conns, n) ==
    IF n > Len(conns) THEN g ELSE AddImplicitFrom(AddImplicit(g, conns[n]), conns, n + 1)

\* create_networkx_graph(knowledge_graph)
CreateNetworkxGraph(knowledge_graph) ==
    AddImplicitFrom(AddExplicitFrom(AddTrees(EmptyGraph, knowledge_graph.trees, 1),
                                    knowledge_graph.explicit_connections, 1),
                    knowledge_graph.implicit_connections, 1)

(***************************************************************************)
(* Inputs                                                                  *)
(***************************************************************************)
\* the description "```\nx=1\n```"
D_fenced == Fence \o <<"\n", "x", "=", "1", "\n">> \o Fence

\* thresholds offered to the constructor: nan, -0.1, 0, 0.7 (the default), 0.96, 1, 1.1
ThresholdUniverse == {NaN, <<-1, 10>>, FloatZero, <<7, 10>>, <<24, 25>>, FloatOne, <<11, 10>>}

Link(ticket_id, relationship) == [ticket_id |-> ticket_id, relationship |-> relationship]

\* ticket records: with a doubled link, with a link to a ticket that is not given, with an
\* underscore in the id, without an id (with and without links), with a zero embedding,
\* with a text the provider fails on, and with a fenced description
TicketUniverse ==
    { [id |-> <<"A">>, Summary |-> T_login,
       links |-> <<Link(<<"B">>, "blocks"), Link(<<"B">>, "blocks")>>],
      [id |-> <<"B">>, title |-> T_logon, links |-> <<Link(<<"Z">>, "relates_to")>>],
      [id |-> <<"A", "_", "1">>, summary |-> T_login],
      [Summary |-> T_login, links |-> <<Link(<<"A">>, "clones")>>],
      [title |-> T_logon],
      [id |-> <<"V">>, Summary |-> T_void],
      [id |-> <<"X">>, Summary |-> T_boom],
      [id |-> <<"C">>, Description |-> D_fenced, Priority |-> <<"H", "i">>] }

\* a description with two indented code blocks: "    a\nm\n    b"
D_two_blocks == Indent \o <<"a", "\n", "m", "\n">> \o Indent \o <<"b">>

\* the dict with the keys of f whose value is not None
MkDict(f) == [key \in {key \in DOMAIN f : f[key] # None} |-> f[key]]

\* a key of a ticket given to parse_ticket_with_rules: absent, empty, or with the value v
Opt(v) == {None, <<>>, v}

\* tickets given to parse_ticket_with_rules: the id absent, empty, plain or with an
\* underscore, and every alias of every section absent, empty or with a value of its own
ParseTicketUniverse ==
    { MkDict([id |-> a, Summary |-> b, summary |-> c, title |-> d, Description |-> e,
              description |-> f, text |-> g, Priority |-> h, priority |-> l]) :
        a \in {None, <<>>, <<"A">>, <<"A", "_", "1">>},
        b \in Opt(<<"S">>), c \in Opt(<<"s">>), d \in Opt(<<"t">>),
        e \in Opt(D_two_blocks), f \in Opt(<<"d">>), g \in Opt(<<"x">>),
        h \in Opt(<<"P">>), l \in Opt(<<"p">>) }

\* the ticket lists given to build_graph
TicketLists == UNION {[1..n -> TicketUniverse] : n \in 0..MaxTickets}

\* the templates given to build_graph
TemplateUniverse == {[sections |-> <<[name |-> SUMMARY]>>]}

\* a template-defined section name
NOTES == <<"N", "o", "t", "e", "s">>

\* _extract_section_with_llm as the class has it: "" for every section
LlmStub == [name \in {SUMMARY, NOTES} |-> <<>>]

\* _extract_section_with_llm: the stub, an implementation that returns a text for every
\* section, and one that returns a text for Notes and raises for Summary
LlmUniverse ==
    { LlmStub,
      [name \in {SUMMARY, NOTES} |-> <<"z">>],
      [name \in {SUMMARY, NOTES} |-> IF name = NOTES THEN <<"z">> ELSE Raised] }

\* the templates given to build_graph with an implemented extractor: no 'sections', one
\* section named like a rule-based one, and a custom section before it
LlmTemplates ==
    { [name |-> <<"t">>],
      [sections |-> <<[name |-> SUMMARY]>>],
      [sections |-> <<[name |-> NOTES], [name |-> SUMMARY]>>] }

\* the tickets and ticket lists given to build_graph with an implemented extractor
LlmTickets ==
    { [id |-> <<"A">>, Summary |-> T_login, links |-> <<Link(<<"B">>, "blocks")>>],
      [id |-> <<"B">>, Description |-> T_logon] }

LlmTicketLists == UNION {[1..n -> LlmTickets] : n \in 0..MaxTickets}

\* the trees given to find_implicit_connections: of tickets with one Summary each, two of
\* similar texts, one with a zero embedding and one the provider fails on
EmbedTrees ==
    { ConstructTicketTree(ParseTicketWithRules([id |-> <<c[1]>>, Summary |-> c[2]])) :
        c \in {<<"A", T_login>>, <<"B", T_logon>>, <<"V", T_void>>, <<"X", T_boom>>} }

EmbedTreeLists == UNION {[1..n -> EmbedTrees] : n \in 0..MaxTickets}

\* the thresholds of the instances build_graph is called on repeatedly: 0 and 0.7
RebuildThresholds == {FloatZero, <<7, 10>>}

\* the ticket lists given to the repeated calls of build_graph: none, one ticket, two
\* linked tickets in both orders, a text the provider fails on, a ticket without an id,
\* and a ticket without an id whose links make find_explicit_connections raise
RebuildTicketLists ==
    LET a == [id |-> <<"A">>, Summary |-> T_login, links |-> <<Link(<<"B">>, "blocks")>>]
        b == [id |-> <<"B">>, title |-> T_logon, links |-> <<Link(<<"Z">>, "relates_to")>>]
        x == [id |-> <<"X">>, Summary |-> T_boom]
    IN  { <<>>, <<a>>, <<a, b>>, <<b, a>>, <<x, a, b>>, <<[title |-> T_logon], a>>,
          <<[Summary |-> T_login, links |-> <<Link(<<"A">>, "clones")>>]>> }

\* a description of 51 characters, one more than get_ticket_title keeps
D_long == [n \in 1..51 |-> "d"]

\* fragments given to construct_ticket_tree: two with one id, one of each other section, and
\* a second, long Description
NodeUniverse ==
    { TicketNode(<<"A">> \o S_summary, SUMMARY, <<"x">>),
      TicketNode(<<"A">> \o S_summary, SUMMARY, <<"y">>),
      TicketNode(<<"A">> \o S_description, DESCRIPTION, <<"d">>),
      TicketNode(<<"B">> \o S_description, DESCRIPTION, D_long),
      TicketNode(<<"A">> \o S_priority, PRIORITY, <<"p">>),
      TicketNode(<<"A">> \o S_code \o <<"0">>, CODE, <<"c">>) }

NodeLists == UNION {[1..n -> NodeUniverse] : n \in 0..MaxNodes}

\* the lines of the texts given to _extract_code_sections
LineUniverse ==
    { Fence, Tilde, <<"x", "=", "1">>, Indent \o <<"y">>, <<>>, Indent }

LineLists == UNION {[1..n -> LineUniverse] : n \in 1..MaxLines}

(***************************************************************************)
(* src/src: TicketParser, GraphGenerator and KnowledgeGraphBuilder         *)
(***************************************************************************)
\* a dict without keys
EmptyDict == [x \in {} |-> None]

\* TicketSection(name, content, metadata)
TicketSection(name, content, metadata) ==
    [name |-> name, content |-> content, metadata |-> metadata]

\* TicketParser.__init__: self.sections
SectionNames(tpl) == [n \in 1..Len(tpl.sections) |-> tpl.sections[n].name]

\* TicketParser.__init__: self.required_sections
RequiredSections(tpl) ==
    SectionNames([sections |-> SelectSeq(tpl.sections, LAMBDA s : GetDefault(s, "required", FALSE))])

\* a validate_section that takes every content of a section the template knows
ValidateSectionAnyContent(tpl, section_name, content) ==
    \E n \in 1..Len(tpl.sections) : tpl.sections[n].name = section_name

\* TicketParser.validate_section(section_name, content): the first section of that name decides
ValidateSection(tpl, section_name, content) ==
    LET found == {n \in 1..Len(tpl.sections) : tpl.sections[n].name = section_name}
    IN  IF found = {} THEN FALSE
        ELSE LET section_config == tpl.sections[CHOOSE n \in found : \A m \in found : n <= m]
             IN  IF section_config.type = "enum"
                 THEN \E v \in 1..Len(GetDefault(section_config, "values", <<>>)) :
                          section_config.values[v] = content
                 ELSE TRUE

RECURSIVE PredefinedFrom(_, _, _)
\* lines 37-45: the loop over self.sections from position p on
PredefinedFrom(tpl, ticket, p) ==
    IF p > Len(tpl.sections) THEN <<>>
    ELSE LET section_name == tpl.sections[p].name
         IN  (IF section_name \in DOMAIN ticket
                 /\ ValidateSection(tpl, section_name, ticket[section_name])
              THEN <<TicketSection(section_name, ticket[section_name], [source |-> "predefined"])>>
              ELSE <<>>)
             \o PredefinedFrom(tpl, ticket, p + 1)

\* [section.name for section in sections]
NamesOf(sections) == {sections[n].name : n \in 1..Len(sections)}

\* lines 48-60: the placeholders of the required sections that are not in `sections`
Placeholders(tpl, ticket, sections) ==
    IF "text" \in DOMAIN ticket
    THEN LET remaining_sections ==
                 SelectSeq(RequiredSections(tpl), LAMBDA s : s \notin NamesOf(sections))
         IN  [n \in 1..Len(remaining_sections) |->
                 TicketSection(remaining_sections[n], "",
                               [source |-> "parsed", confidence |-> FloatZero])]
    ELSE <<>>

\* TicketParser(template).parse_ticket(ticket)
ParseTicket(tpl, ticket) ==
    LET sections == PredefinedFrom(tpl, ticket, 1)
    IN  sections \o Placeholders(tpl, ticket, sections)

\* a graph of networkx: the nodes in the order they were added and the edges in the order
\* they were first added
EmptyNx == [nodes |-> <<>>, attrs |-> EmptyDict, edges |-> <<>>]

\* the position of n among the nodes of g, 0 when it is not a node
NodePos(g, n) ==
    IF \E p \in 1..Len(g.nodes) : g.nodes[p] = n
    THEN CHOOSE p \in 1..Len(g.nodes) : g.nodes[p] = n
    ELSE 0

\* add_node(n, **attrs): a new node is added last, the attributes of a known one are updated
NxAddNode(g, n, attrs) ==
    IF NodePos(g, n) = 0
    THEN [g EXCEPT !.nodes = Append(g.nodes, n),
                   !.attrs = [x \in (DOMAIN g.attrs) \cup {n} |-> IF x = n THEN attrs ELSE g.attrs[x]]]
    ELSE [g EXCEPT !.attrs[n] = attrs @@ g.attrs[n]]

\* the ends of add_edge(u, v): a missing end becomes a node without attributes
NxWithEnds(g, u, v) == NxAddNode(NxAddNode(g, u, EmptyDict), v, EmptyDict)

\* the same edge of a DiGraph: the same ends in the same direction
SameDirected(e, u, v) == e.u = u /\ e.v = v

\* the same edge of a Graph: the same ends in either direction
SameUndirected(e, u, v) == (e.u = u /\ e.v = v) \/ (e.u = v /\ e.v = u)

\* DiGraph.add_edge(u, v, **attrs): one edge for a pair of ends; the attributes of a known
\* edge are updated
DiAddEdge(g, u, v, attrs) ==
    LET g1 == NxWithEnds(g, u, v)
    IN  IF \E p \in 1..Len(g.edges) : SameDirected(g.edges[p], u, v)
        THEN [g1 EXCEPT !.edges = [p \in 1..Len(g.edges) |->
                 IF SameDirected(g.edges[p], u, v)
                 THEN [g.edges[p] EXCEPT !.attrs = attrs @@ g.edges[p].attrs]
                 ELSE g.edges[p]]]
        ELSE [g1 EXCEPT !.edges = Append(g.edges, [u |-> u, v |-> v, attrs |-> attrs])]

\* Graph.add_edge(u, v, **attrs): one edge for a pair of ends whatever the direction; the
\* attributes of a known edge are updated
GraphAddEdge(g, u, v, attrs) ==
    LET g1 == NxWithEnds(g, u, v)
    IN  IF \E p \in 1..Len(g.edges) : SameUndirected(g.edges[p], u, v)
        THEN [g1 EXCEPT !.edges = [p \in 1..Len(g.edges) |->
                 IF SameUndirected(g.edges[p], u, v)
                 THEN [g.edges[p] EXCEPT !.attrs = attrs @@ g.edges[p].attrs]
                 ELSE g.edges[p]]]
        ELSE [g1 EXCEPT !.edges = Append(g.edges, [u |-> u, v |-> v, attrs |-> attrs])]

\* MultiDiGraph.add_edge(u, v, **attrs): every call adds an edge
MultiAddEdge(g, u, v, attrs) ==
    [NxWithEnds(g, u, v) EXCEPT !.edges = Append(g.edges, [u |-> u, v |-> v, attrs |-> attrs])]

RECURSIVE TreeNodesFrom(_, _, _, _)
\* lines 17-22: the nodes of the sections from position p on
TreeNodesFrom(g, ticket_id, sections, p) ==
    IF p > Len(sections) THEN g
    ELSE TreeNodesFrom(NxAddNode(g, <<ticket_id, sections[p].name>>,
                                 [content |-> sections[p].content,
                                  metadata |-> sections[p].metadata]),
                       ticket_id, sections, p + 1)

RECURSIVE TreeEdgesFrom(_, _, _, _)
\* lines 25-29: the edges between the sections p, p + 1 and on
TreeEdgesFrom(g, ticket_id, sections, p) ==
    IF p > Len(sections) - 1 THEN g
    ELSE TreeEdgesFrom(DiAddEdge(g, <<ticket_id, sections[p].name>>,
                                 <<ticket_id, sections[p + 1].name>>, EmptyDict),
                       ticket_id, sections, p + 1)

\* GraphGenerator.create_intra_ticket_tree(ticket_id, sections)
CreateIntraTicketTree(ticket_id, sections) ==
    TreeEdgesFrom(TreeNodesFrom(EmptyNx, ticket_id, sections, 1), ticket_id, sections, 1)

\* self.model.encode(title): the sentence model returns a vector for every text
Encode(text) == Embed(text).vec

\* sklearn's cosine_similarity of two vectors: a zero vector is left as it is by the
\* normalisation, which gives 0.0
SklearnCosine(vec1, vec2) ==
    IF Norm(vec1) = 0 \/ Norm(vec2) = 0 THEN FloatZero
    ELSE FloatDiv(Dot(vec1, vec2), Norm(vec1) * Norm(vec2))

RECURSIVE InterNodesFrom(_, _, _)
\* lines 44-45: a node for each ticket from position p on
InterNodesFrom(g, ts, p) ==
    IF p > Len(ts) THEN g
    ELSE InterNodesFrom(NxAddNode(g, ts[p].id, [title |-> ts[p].title]), ts, p + 1)

RECURSIVE InterLinksFrom(_, _, _)
\* lines 50-56: the links of one ticket from position p on
InterLinksFrom(g, ticket, p) ==
    IF p > Len(ticket.links) THEN g
    ELSE InterLinksFrom(GraphAddEdge(g, ticket.id, ticket.links[p].target_id,
                                     [type |-> "explicit",
                                      relationship |-> ticket.links[p].type]),
                        ticket, p + 1)

RECURSIVE InterExplicitFrom(_, _, _)
\* lines 48-56: the explicit connections of the tickets from position p on
InterExplicitFrom(g, ts, p) ==
    IF p > Len(ts) THEN g
    ELSE InterExplicitFrom(IF "links" \in DOMAIN ts[p] THEN InterLinksFrom(g, ts[p], 1) ELSE g,
                           ts, p + 1)

RECURSIVE InterImplicitFrom(_, _, _, _, _)
\* lines 59-72: the pairs (a, b), (a, b + 1), ... in the order of the two loops; embeddings
\* is a dict keyed by ticket id, so the title of the last ticket of an id counts
InterImplicitFrom(g, ts, similarity_threshold, a, b) ==
    IF a > Len(ts) THEN g
    ELSE IF b > Len(ts) THEN InterImplicitFrom(g, ts, similarity_threshold, a + 1, a + 2)
    ELSE LET last(id) == ts[CHOOSE p \in 1..Len(ts) :
                                /\ ts[p].id = id
                                /\ \A q \in 1..Len(ts) : ts[q].id = id => q <= p].title
             sim == SklearnCosine(Encode(last(ts[a].id)), Encode(last(ts[b].id)))
         IN  InterImplicitFrom(IF FloatGE(sim, similarity_threshold)
                               THEN GraphAddEdge(g, ts[a].id, ts[b].id,
                                                 [type |-> "implicit", weight |-> sim])
                               ELSE g,
                               ts, similarity_threshold, a, b + 1)

\* GraphGenerator.create_inter_ticket_graph(tickets)
CreateInterTicketGraph(similarity_threshold, ts) ==
    InterImplicitFrom(InterExplicitFrom(InterNodesFrom(EmptyNx, ts, 1), ts, 1),
                      ts, similarity_threshold, 1, 2)

\* Graph.edges(data=True): the nodes in their order, the neighbours of a node in the order
\* their edges were added, an edge skipped when its other end came before
GraphEdges(g) ==
    LET Other(e, n) == IF e.u = n THEN e.v ELSE e.u
        At(p) == SelectSeq(g.edges, LAMBDA e : /\ (e.u = g.nodes[p] \/ e.v = g.nodes[p])
                                                /\ NodePos(g, Other(e, g.nodes[p])) >= p)
        Oriented(p) == [n \in 1..Len(At(p)) |->
                           [u |-> g.nodes[p], v |-> Other(At(p)[n], g.nodes[p]),
                            attrs |-> At(p)[n].attrs]]
        From[p \in 1..(Len(g.nodes) + 1)] ==
            IF p > Len(g.nodes) THEN <<>> ELSE Oriented(p) \o From[p + 1]
    IN  From[1]

RECURSIVE CombineNodesFrom(_, _, _)
\* add_nodes_from(tree.nodes(data=True)) from position p on
CombineNodesFrom(g, t, p) ==
    IF p > Len(t.nodes) THEN g
    ELSE CombineNodesFrom(NxAddNode(g, t.nodes[p], t.attrs[t.nodes[p]]), t, p + 1)

RECURSIVE CombineEdgesFrom(_, _, _)
\* add_edges_from(edges) into the MultiDiGraph from position p on
CombineEdgesFrom(g, edges, p) ==
    IF p > Len(edges) THEN g
    ELSE CombineEdgesFrom(MultiAddEdge(g, edges[p].u, edges[p].v, edges[p].attrs), edges, p + 1)

RECURSIVE CombineTreesFrom(_, _, _)
\* lines 85-87: the intra-ticket trees from position p on
CombineTreesFrom(g, ts, p) ==
    IF p > Len(ts) THEN g
    ELSE CombineTreesFrom(CombineEdgesFrom(CombineNodesFrom(g, ts[p], 1), ts[p].edges, 1),
                          ts, p + 1)

\* lines 90-96: the edges of the inter-ticket graph, between the Summary nodes
SummaryEdges(edges) ==
    [n \in 1..Len(edges) |->
        [u |-> <<edges[n].u, "Summary">>, v |-> <<edges[n].v, "Summary">>,
         attrs |-> edges[n].attrs]]

\* GraphGenerator.combine_graphs(intra_ticket_trees, inter_ticket_graph)
CombineGraphs(intra_trees, inter) ==
    CombineEdgesFrom(CombineTreesFrom(EmptyNx, intra_trees, 1), SummaryEdges(GraphEdges(inter)), 1)

\* the most sections a template has
MaxSections == 3

\* the sections of the templates: free text and enumerations, required or not; `values`
\* and `required` are keys a section may lack
SectionConfigs ==
    { [name |-> "Summary", type |-> "text", required |-> TRUE],
      [name |-> "Priority", type |-> "enum", values |-> <<"High", "Low">>, required |-> TRUE],
      [name |-> "Priority", type |-> "enum", required |-> TRUE],
      [name |-> "Priority", type |-> "text", required |-> FALSE],
      [name |-> "Notes", type |-> "text"] }

\* the templates given to TicketParser
ParserTemplates == {[sections |-> ss] : ss \in UNION {[1..n -> SectionConfigs] : n \in 0..MaxSections}}

\* a key of a ticket given to parse_ticket: absent, or with one of the values vs
Keyed(key, vs) == {EmptyDict} \cup {key :> v : v \in vs}

\* the tickets given to TicketParser.parse_ticket: each section absent, empty or with a value
ParserTickets ==
    { a @@ b @@ c @@ d :
        a \in Keyed("Summary", {"s"}), b \in Keyed("Priority", {"", "High", "Urgent"}),
        c \in Keyed("Notes", {"n"}), d \in Keyed("text", {"t"}) }

\* a link record of a ticket given to KnowledgeGraphBuilder
TargetLink(target_id, type) == [target_id |-> target_id, type |-> type]

\* the tickets given to build_knowledge_graph, each with an id and a title: with a link
\* declared twice, with the link back, with a title that is not similar to the others, with
\* a link to itself, and without links
BuilderTickets ==
    { [id |-> "A", title |-> T_login, Summary |-> "s", text |-> "t",
       links |-> <<TargetLink("B", "blocks"), TargetLink("B", "blocks")>>],
      [id |-> "B", title |-> T_logon, Priority |-> "High",
       links |-> <<TargetLink("A", "relates")>>],
      [id |-> "B", title |-> T_login, links |-> <<>>],
      [id |-> "C", title |-> <<"c">>, text |-> "t", links |-> <<TargetLink("C", "relates")>>],
      [id |-> "D", title |-> T_void, Summary |-> "s"] }

BuilderTicketLists == UNION {[1..n -> BuilderTickets] : n \in 0..MaxTickets}

\* the templates KnowledgeGraphBuilder loads
BuilderTemplates ==
    { [sections |-> <<[name |-> "Summary", type |-> "text", required |-> TRUE],
                      [name |-> "Priority", type |-> "enum", values |-> <<"High", "Low">>,
                       required |-> TRUE]>>],
      [sections |-> <<[name |-> "Notes", type |-> "text"]>>] }

(***************************************************************************)
(* State                                                                   *)
(***************************************************************************)
VARIABLES
    pc,                    \* where the caller of IssueKnowledgeGraph is
    self,                  \* the constructed instance: <<>> or <<[similarity_threshold |-> t]>>
    threshold,             \* the threshold given to __init__
    tickets, template,     \* the arguments of build_graph
    k,                     \* build_graph: the position of the ticket being processed
    trees,                 \* build_graph: trees
    explicit_connections,  \* build_graph: explicit_connections
    connections,           \* find_implicit_connections: connections
    i, j,                  \* find_implicit_connections: the positions of tree1 and tree2
    similarity,            \* find_implicit_connections: the last similarity
    embed_calls,           \* the number of embed calls made for each tree position
    scored,                \* the pairs scored so far: [i, j, similarity, emitted]
    log,                   \* the events given to self.logger
    result,                \* what build_graph returned: <<>> or <<KnowledgeGraph>>
    nodes, tree,           \* construct_ticket_tree alone: its argument and its result
    text, lines, st, code_sections,  \* _extract_code_sections alone
    title,                 \* get_ticket_title alone: its result, <<>> or <<title>>
    parse_ticket, parsed,  \* parse_ticket_with_rules alone: its argument, and <<>> or <<nodes>>
    llm,                   \* what the instance's _extract_section_with_llm does
    G,                     \* create_networkx_graph: <<>> or <<the graph it returned>>
    history,               \* the calls of build_graph that ended: [tickets, template, result]
    emb, settled,          \* calculate_similarity step by step: the two embed requests of the
                           \* pair, and the tree positions an embed request has ended for
    builder,               \* the KnowledgeGraphBuilder: <<>> or <<[template, similarity_threshold]>>
    parsed_tickets,        \* build_knowledge_graph: parsed_tickets
    intra_ticket_trees,    \* build_knowledge_graph: intra_ticket_trees
    inter_ticket_graph,    \* build_knowledge_graph: <<>> or <<inter_ticket_graph>>
    combined,              \* build_knowledge_graph: <<>> or <<the graph it returned>>
    instances,             \* the IssueKnowledgeGraph instances of the process: [similarity_threshold, log_file]
    handlers,              \* the handlers of logging.getLogger("GraphGenerator"): their files
    files,                 \* the log files: the records written to each
    runs                   \* the builds of the process: [instance, entries]

vars == <<pc, self, threshold, tickets, template, k, trees, explicit_connections, connections,
          i, j, similarity, embed_calls, scored, log, result, nodes, tree, text, lines, st,
          code_sections, title, parse_ticket, parsed, llm, G, history, emb, settled, builder,
          parsed_tickets, intra_ticket_trees, inter_ticket_graph, combined, instances, handlers,
          files, runs>>

buildVars == <<tickets, template, k, trees, explicit_connections, connections, i, j, similarity,
               embed_calls, scored, log, result>>

treeVars == <<nodes, tree>>

codeVars == <<text, lines, st, code_sections>>

\* no build has started
NoBuild ==
    /\ tickets = <<>> /\ template = [sections |-> <<>>] /\ k = 0 /\ trees = <<>>
    /\ explicit_connections = <<>> /\ connections = <<>> /\ i = 0 /\ j = 0
    /\ similarity = FloatZero /\ embed_calls = <<>> /\ scored = <<>> /\ log = <<>>
    /\ result = <<>>

NoTree == nodes = <<>> /\ tree = <<>>

NoCode == text = <<>> /\ lines = <<>> /\ st = CodeInit /\ code_sections = <<>>

titleVars == <<title>>

parseVars == <<parse_ticket, parsed>>

embedVars == <<emb, settled>>

builderVars == <<builder, parsed_tickets, intra_ticket_trees, inter_ticket_graph, combined>>

loggerVars == <<instances, handlers, files, runs>>

lateVars == <<builderVars, loggerVars>>

moreVars == <<embedVars, lateVars>>

extVars == <<titleVars, parseVars, llm, G, history, moreVars>>

NoTitle == title = <<>>

NoParse == parse_ticket = <<>> /\ parsed = <<>>

\* the class's own _extract_section_with_llm
NoLlm == llm = LlmStub

NoGraph == G = <<>>

NoHistory == history = <<>>

NoEmbed == emb = <<"none", "none">> /\ settled = {}

NoBuilder ==
    /\ builder = <<>> /\ parsed_tickets = <<>> /\ intra_ticket_trees = <<>>
    /\ inter_ticket_graph = <<>> /\ combined = <<>>

NoLogger == instances = <<>> /\ handlers = <<>> /\ files = EmptyDict /\ runs = <<>>

NoLate == NoBuilder /\ NoLogger

NoMore == NoEmbed /\ NoLate

NoExt == NoTitle /\ NoParse /\ NoLlm /\ NoGraph /\ NoHistory /\ NoMore

(***************************************************************************)
(* IssueKnowledgeGraph(embedding_model, threshold) and build_graph         *)
(***************************************************************************)
Init ==
    /\ pc = "new" /\ self = <<>> /\ threshold = FloatZero
    /\ NoBuild /\ NoTree /\ NoCode /\ NoExt

\* __init__: ValueError for a threshold outside [0, 1], else the instance
Construct(t) ==
    /\ pc = "new"
    /\ threshold' = t
    /\ IF ThresholdInRange(t)
       THEN self' = <<[similarity_threshold |-> t]>> /\ pc' = "idle"
       ELSE self' = <<>> /\ pc' = "ctor_raised"
    /\ UNCHANGED <<buildVars, treeVars, codeVars, extVars>>

\* a build_graph that keeps the trees of the calls before, as an attribute of the instance
\* would
BuildStartKeepsTrees(ts, tpl) ==
    /\ pc = "idle" /\ Len(history) < MaxBuilds
    /\ tickets' = ts /\ template' = tpl
    /\ k' = 1 /\ trees' = trees
    /\ pc' = "tickets"
    /\ UNCHANGED <<self, threshold, explicit_connections, connections, i, j, similarity,
                   embed_calls, scored, log, result, treeVars, codeVars, extVars>>

\* build_graph is called
BuildStart(ts, tpl) ==
    /\ pc = "idle" /\ Len(history) < MaxBuilds
    /\ tickets' = ts /\ template' = tpl
    /\ k' = 1 /\ trees' = <<>>
    /\ pc' = "tickets"
    /\ UNCHANGED <<self, threshold, explicit_connections, connections, i, j, similarity,
                   embed_calls, scored, log, result, treeVars, codeVars, extVars>>

LogEntry(kind, from, to) == [kind |-> kind, from |-> from, to |-> to]

\* lines 243-263: one iteration of "for ticket in tickets"
ProcessTicket ==
    /\ pc = "tickets" /\ k <= Len(tickets)
    /\ LET ticket == tickets[k]
       IN  IF ParseRaises(ticket)
           THEN /\ log' = Append(log, LogEntry("error", GetDefault(ticket, "id", <<"u", "n", "k", "n", "o", "w", "n">>), <<>>))
                /\ trees' = trees
           ELSE LET all_nodes == ParseTicketWithRules(ticket)
                                     \o ParseTicketWithLlm(llm, ticket, template)
                    t == ConstructTicketTree(all_nodes)
                IN  /\ trees' = Append(trees, t)
                    /\ log' = Append(log, LogEntry("ticket", t.id, <<>>))
    /\ k' = k + 1
    /\ UNCHANGED <<pc, self, threshold, tickets, template, explicit_connections, connections,
                   i, j, similarity, embed_calls, scored, result, treeVars, codeVars, extVars>>

\* the log_connection events of a list of connections
ConnectionLog(kind, conns) == [n \in 1..Len(conns) |-> LogEntry(kind, conns[n][1], conns[n][2])]

\* lines 265-273: find_explicit_connections; its KeyError leaves build_graph
FindExplicit ==
    /\ pc = "tickets" /\ k > Len(tickets)
    /\ IF FindExplicitRaises(tickets)
       THEN /\ pc' = "raised"
            /\ UNCHANGED <<explicit_connections, log, i, j, embed_calls, connections, scored>>
       ELSE /\ explicit_connections' = FindExplicitConnections(tickets)
            /\ log' = log \o ConnectionLog("explicit", explicit_connections')
            /\ connections' = <<>> /\ scored' = <<>>
            /\ i' = 1 /\ j' = 2
            /\ embed_calls' = [n \in 1..Len(trees) |-> 0]
            /\ pc' = "implicit"
    /\ UNCHANGED <<self, threshold, tickets, template, k, trees, similarity, result, treeVars,
                   codeVars, extVars>>

\* lines 191-195: one iteration of the pair loop
ScorePair ==
    /\ pc = "implicit" /\ j <= Len(trees)
    /\ LET sim == CalculateSimilarity(trees[i], trees[j])
           calls == EmbedCalls(trees[i], trees[j])
       IN  /\ similarity' = sim
           /\ embed_calls' = [embed_calls EXCEPT ![i] = @ + calls[1], ![j] = @ + calls[2]]
           /\ connections' = IF Emits(sim, self[1].similarity_threshold)
                             THEN Append(connections, <<trees[i].id, trees[j].id, sim>>)
                             ELSE connections
           /\ scored' = Append(scored, [i |-> i, j |-> j, similarity |-> sim,
                                        emitted |-> Emits(sim, self[1].similarity_threshold)])
    /\ IF j < Len(trees) THEN i' = i /\ j' = j + 1 ELSE i' = i + 1 /\ j' = i + 2
    /\ UNCHANGED <<pc, self, threshold, tickets, template, k, trees, explicit_connections, log,
                   result, treeVars, codeVars, extVars>>

\* KnowledgeGraph(trees, explicit_connections, implicit_connections)
KnowledgeGraph(ts, ec, ic) ==
    [trees |-> ts, explicit_connections |-> ec, implicit_connections |-> ic]

\* lines 277-289: the implicit connections are logged and the graph is returned
Return ==
    /\ pc = "implicit" /\ j > Len(trees)
    /\ log' = log \o ConnectionLog("implicit", connections)
    /\ result' = <<KnowledgeGraph(trees, explicit_connections, connections)>>
    /\ pc' = "done"
    /\ UNCHANGED <<self, threshold, tickets, template, k, trees, explicit_connections,
                   connections, i, j, similarity, embed_calls, scored, treeVars, codeVars, extVars>>

\* the caller resolves the returned KnowledgeGraph with create_networkx_graph
Resolve ==
    /\ pc = "done"
    /\ G' = <<CreateNetworkxGraph(result[1])>>
    /\ pc' = "resolved"
    /\ UNCHANGED <<self, threshold, buildVars, treeVars, codeVars, titleVars, parseVars, llm,
                   history, moreVars>>

Next ==
    \/ \E t \in ThresholdUniverse : Construct(t)
    \/ \E ts \in TicketLists, tpl \in TemplateUniverse : BuildStart(ts, tpl)
    \/ ProcessTicket
    \/ FindExplicit
    \/ ScorePair
    \/ Return
    \/ Resolve

Spec == Init /\ [][Next]_vars

(***************************************************************************)
(* build_graph called again and again on one instance                      *)
(***************************************************************************)
\* a call of build_graph has returned or raised: the caller keeps what it gave and is free
\* to call again
CallEnds ==
    /\ pc \in {"done", "raised"}
    /\ history' = Append(history, [tickets |-> tickets, template |-> template,
                                   result |-> IF pc = "done" THEN result ELSE <<>>])
    /\ result' = <<>>
    /\ pc' = "idle"
    /\ UNCHANGED <<self, threshold, tickets, template, k, trees, explicit_connections,
                   connections, i, j, similarity, embed_calls, scored, log, treeVars, codeVars,
                   titleVars, parseVars, llm, G, moreVars>>

NextRebuild ==
    \/ \E t \in RebuildThresholds : Construct(t)
    \/ \E ts \in RebuildTicketLists, tpl \in TemplateUniverse : BuildStart(ts, tpl)
    \/ ProcessTicket
    \/ FindExplicit
    \/ ScorePair
    \/ Return
    \/ CallEnds

SpecRebuild == Init /\ [][NextRebuild]_vars

(***************************************************************************)
(* find_implicit_connections, one embed request at a time                  *)
(***************************************************************************)
InitEmbed ==
    /\ pc = "pair" /\ threshold \in RebuildThresholds
    /\ self = <<[similarity_threshold |-> threshold]>>
    /\ trees \in EmbedTreeLists
    /\ tickets = <<>> /\ template = [sections |-> <<>>] /\ k = 0
    /\ explicit_connections = <<>> /\ connections = <<>> /\ i = 1 /\ j = 2
    /\ similarity = FloatZero /\ embed_calls = [n \in 1..Len(trees) |-> 0] /\ scored = <<>>
    /\ log = <<>> /\ result = <<>>
    /\ NoTree /\ NoCode /\ NoTitle /\ NoParse /\ NoLlm /\ NoGraph /\ NoHistory /\ NoEmbed
    /\ NoLate

\* line 207: calculate_similarity asks for the embedding of title1 and is suspended
EmbedFirst ==
    /\ pc = "pair" /\ j <= Len(trees)
    /\ emb' = <<"pending", "none">>
    /\ embed_calls' = [embed_calls EXCEPT ![i] = @ + 1]
    /\ pc' = "await_first"
    /\ UNCHANGED <<self, threshold, tickets, template, k, trees, explicit_connections,
                   connections, i, j, similarity, scored, log, result, treeVars, codeVars,
                   titleVars, parseVars, llm, G, history, settled, lateVars>>

\* lines 207-208 and 211-213: the first request ends; the second is made, or the exception
\* is caught and 0.0 returned
ResolveFirst ==
    /\ pc = "await_first"
    /\ settled' = settled \cup {i}
    /\ IF Embed(GetTicketTitle(trees[i])).ok
       THEN /\ emb' = <<"ok", "pending">>
            /\ embed_calls' = [embed_calls EXCEPT ![j] = @ + 1]
            /\ pc' = "await_second"
            /\ UNCHANGED similarity
       ELSE /\ emb' = <<"failed", "none">>
            /\ similarity' = FloatZero
            /\ pc' = "scored"
            /\ UNCHANGED embed_calls
    /\ UNCHANGED <<self, threshold, tickets, template, k, trees, explicit_connections,
                   connections, i, j, scored, log, result, treeVars, codeVars, titleVars,
                   parseVars, llm, G, history, lateVars>>

\* lines 208-213: the second request ends; the cosine is returned, or 0.0
ResolveSecond ==
    /\ pc = "await_second"
    /\ settled' = settled \cup {j}
    /\ LET embedding1 == Embed(GetTicketTitle(trees[i]))
           embedding2 == Embed(GetTicketTitle(trees[j]))
       IN  IF embedding2.ok
           THEN /\ emb' = <<"ok", "ok">>
                /\ similarity' = CosineSimilarity(embedding1.vec, embedding2.vec)
           ELSE /\ emb' = <<"ok", "failed">>
                /\ similarity' = FloatZero
    /\ pc' = "scored"
    /\ UNCHANGED <<self, threshold, tickets, template, k, trees, explicit_connections,
                   connections, i, j, embed_calls, scored, log, result, treeVars, codeVars,
                   titleVars, parseVars, llm, G, history, lateVars>>

\* lines 194-195: the pair's similarity is compared with the threshold
AppendPair ==
    /\ pc = "scored"
    /\ connections' = IF Emits(similarity, self[1].similarity_threshold)
                      THEN Append(connections, <<trees[i].id, trees[j].id, similarity>>)
                      ELSE connections
    /\ scored' = Append(scored, [i |-> i, j |-> j, similarity |-> similarity,
                                 emitted |-> Emits(similarity, self[1].similarity_threshold)])
    /\ IF j < Len(trees) THEN i' = i /\ j' = j + 1 ELSE i' = i + 1 /\ j' = i + 2
    /\ emb' = <<"none", "none">>
    /\ pc' = "pair"
    /\ UNCHANGED <<self, threshold, tickets, template, k, trees, explicit_connections,
                   similarity, embed_calls, log, result, treeVars, codeVars, titleVars,
                   parseVars, llm, G, history, settled, lateVars>>

\* line 197
ImplicitReturn ==
    /\ pc = "pair" /\ j > Len(trees)
    /\ pc' = "implicit_done"
    /\ UNCHANGED <<self, threshold, buildVars, treeVars, codeVars, extVars>>

NextEmbed == EmbedFirst \/ ResolveFirst \/ ResolveSecond \/ AppendPair \/ ImplicitReturn

SpecEmbed == InitEmbed /\ [][NextEmbed]_vars

(***************************************************************************)
(* build_graph on an instance whose _extract_section_with_llm is implemented *)
(***************************************************************************)
\* an instance with the default threshold 0.7 and one of the extractors
InitLlm ==
    /\ pc = "idle" /\ self = <<[similarity_threshold |-> <<7, 10>>]>> /\ threshold = <<7, 10>>
    /\ NoBuild /\ NoTree /\ NoCode /\ NoTitle /\ NoParse /\ NoGraph /\ NoHistory /\ NoMore
    /\ llm \in LlmUniverse

NextLlm ==
    \/ \E ts \in LlmTicketLists, tpl \in LlmTemplates : BuildStart(ts, tpl)
    \/ ProcessTicket
    \/ FindExplicit
    \/ ScorePair
    \/ Return
    \/ Resolve

SpecLlm == InitLlm /\ [][NextLlm]_vars

(***************************************************************************)
(* construct_ticket_tree on its own                                        *)
(***************************************************************************)
InitTree ==
    /\ pc = "tree_call" /\ self = <<>> /\ threshold = FloatZero
    /\ NoBuild /\ NoCode /\ NoExt
    /\ nodes \in NodeLists /\ tree = <<>>

TreeCall ==
    /\ pc = "tree_call"
    /\ tree' = <<ConstructTicketTree(nodes)>>
    /\ pc' = "tree_done"
    /\ UNCHANGED <<self, threshold, buildVars, nodes, codeVars, extVars>>

\* get_ticket_title is called with the tree
TitleCall ==
    /\ pc = "tree_done"
    /\ title' = <<GetTicketTitle(tree[1])>>
    /\ pc' = "title_done"
    /\ UNCHANGED <<self, threshold, buildVars, treeVars, codeVars, parseVars, llm, G, history,
                   moreVars>>

NextTree == TreeCall \/ TitleCall

SpecTree == InitTree /\ [][NextTree]_vars

(***************************************************************************)
(* _extract_code_sections on its own, one line at a time                   *)
(***************************************************************************)
InitCode ==
    /\ pc = "code_call" /\ self = <<>> /\ threshold = FloatZero
    /\ NoBuild /\ NoTree /\ NoExt
    /\ text \in {Join(ls, "\n") : ls \in LineLists}
    /\ lines = <<>> /\ st = CodeInit /\ code_sections = <<>>

\* lines 91-95
CodeCall ==
    /\ pc = "code_call"
    /\ lines' = Split(text, "\n") /\ st' = CodeInit
    /\ pc' = "code_loop"
    /\ UNCHANGED <<self, threshold, buildVars, treeVars, text, code_sections, extVars>>

\* lines 97-120: one iteration of "for line in lines"
CodeLine ==
    /\ pc = "code_loop" /\ lines # <<>>
    /\ st' = CodeStep(st, Head(lines))
    /\ lines' = Tail(lines)
    /\ UNCHANGED <<pc, self, threshold, buildVars, treeVars, text, code_sections, extVars>>

\* lines 122-126
CodeReturn ==
    /\ pc = "code_loop" /\ lines = <<>>
    /\ code_sections' = Flush(st).code_sections
    /\ pc' = "code_done"
    /\ UNCHANGED <<self, threshold, buildVars, treeVars, text, lines, st, extVars>>

NextCode == CodeCall \/ CodeLine \/ CodeReturn

SpecCode == InitCode /\ [][NextCode]_vars

(***************************************************************************)
(* parse_ticket_with_rules on its own                                      *)
(***************************************************************************)
InitParse ==
    /\ pc = "parse_call" /\ self = <<>> /\ threshold = FloatZero
    /\ NoBuild /\ NoTree /\ NoCode /\ NoTitle /\ NoLlm /\ NoGraph /\ NoHistory /\ NoMore
    /\ parse_ticket \in ParseTicketUniverse /\ parsed = <<>>

\* lines 43-87: the ValueError of a ticket without 'id', else the fragments
ParseCall ==
    /\ pc = "parse_call"
    /\ IF ParseRaises(parse_ticket)
       THEN parsed' = <<>> /\ pc' = "parse_raised"
       ELSE parsed' = <<ParseTicketWithRules(parse_ticket)>> /\ pc' = "parse_done"
    /\ UNCHANGED <<self, threshold, buildVars, treeVars, codeVars, titleVars, parse_ticket,
                   llm, G, history, moreVars>>

NextParse == ParseCall

SpecParse == InitParse /\ [][NextParse]_vars

(***************************************************************************)
(* TicketParser.parse_ticket alone                                         *)
(***************************************************************************)
InitTicketParser ==
    /\ pc = "sections_call" /\ self = <<>> /\ threshold = FloatZero
    /\ tickets = <<>> /\ template \in ParserTemplates /\ k = 0 /\ trees = <<>>
    /\ explicit_connections = <<>> /\ connections = <<>> /\ i = 0 /\ j = 0
    /\ similarity = FloatZero /\ embed_calls = <<>> /\ scored = <<>> /\ log = <<>>
    /\ result = <<>>
    /\ NoTree /\ NoCode /\ NoTitle /\ NoLlm /\ NoGraph /\ NoHistory /\ NoMore
    /\ parse_ticket \in ParserTickets /\ parsed = <<>>

\* TicketParser(template).parse_ticket(ticket)
TicketParserCall ==
    /\ pc = "sections_call"
    /\ parsed' = <<ParseTicket(template, parse_ticket)>>
    /\ pc' = "sections_done"
    /\ UNCHANGED <<self, threshold, buildVars, treeVars, codeVars, titleVars, parse_ticket,
                   llm, G, history, moreVars>>

NextTicketParser == TicketParserCall

SpecTicketParser == InitTicketParser /\ [][NextTicketParser]_vars

(***************************************************************************)
(* KnowledgeGraphBuilder(template_path, similarity_threshold) and          *)
(* build_knowledge_graph                                                   *)
(***************************************************************************)
InitBuilder ==
    /\ pc = "builder_new" /\ self = <<>> /\ threshold = FloatZero
    /\ NoBuild /\ NoTree /\ NoCode /\ NoExt

\* KnowledgeGraphBuilder.__init__ and GraphGenerator.__init__: the template is loaded and
\* the threshold stored as it is given
BuilderConstruct(tpl, t) ==
    /\ pc = "builder_new"
    /\ threshold' = t
    /\ builder' = <<[template |-> tpl, similarity_threshold |-> t]>>
    /\ pc' = "builder_idle"
    /\ UNCHANGED <<self, buildVars, treeVars, codeVars, titleVars, parseVars, llm, G, history,
                   embedVars, parsed_tickets, intra_ticket_trees, inter_ticket_graph, combined, loggerVars>>

\* build_knowledge_graph(tickets) is called
BuildKnowledgeGraph(ts) ==
    /\ pc = "builder_idle"
    /\ tickets' = ts
    /\ pc' = "parse_tickets"
    /\ UNCHANGED <<self, threshold, template, k, trees, explicit_connections, connections, i, j,
                   similarity, embed_calls, scored, log, result, treeVars, codeVars, extVars>>

\* lines 18-21: parsed_tickets
ParseTickets ==
    /\ pc = "parse_tickets"
    /\ parsed_tickets' = [n \in 1..Len(tickets) |->
                             <<tickets[n].id, ParseTicket(builder[1].template, tickets[n])>>]
    /\ pc' = "intra_trees"
    /\ UNCHANGED <<self, threshold, buildVars, treeVars, codeVars, titleVars, parseVars, llm, G,
                   history, embedVars, builder, intra_ticket_trees, inter_ticket_graph, combined, loggerVars>>

\* lines 24-27: intra_ticket_trees
IntraTicketTrees ==
    /\ pc = "intra_trees"
    /\ intra_ticket_trees' = [n \in 1..Len(parsed_tickets) |->
                                 CreateIntraTicketTree(parsed_tickets[n][1], parsed_tickets[n][2])]
    /\ pc' = "inter_graph"
    /\ UNCHANGED <<self, threshold, buildVars, treeVars, codeVars, titleVars, parseVars, llm, G,
                   history, embedVars, builder, parsed_tickets, inter_ticket_graph, combined, loggerVars>>

\* line 30: inter_ticket_graph
InterTicketGraph ==
    /\ pc = "inter_graph"
    /\ inter_ticket_graph' = <<CreateInterTicketGraph(builder[1].similarity_threshold, tickets)>>
    /\ pc' = "combine"
    /\ UNCHANGED <<self, threshold, buildVars, treeVars, codeVars, titleVars, parseVars, llm, G,
                   history, embedVars, builder, parsed_tickets, intra_ticket_trees, combined, loggerVars>>

\* line 33: the combined graph is returned
Combine ==
    /\ pc = "combine"
    /\ combined' = <<CombineGraphs(intra_ticket_trees, inter_ticket_graph[1])>>
    /\ pc' = "builder_done"
    /\ UNCHANGED <<self, threshold, buildVars, treeVars, codeVars, titleVars, parseVars, llm, G,
                   history, embedVars, builder, parsed_tickets, intra_ticket_trees,
                   inter_ticket_graph, loggerVars>>

NextBuilder ==
    \/ \E tpl \in BuilderTemplates, t \in ThresholdUniverse : BuilderConstruct(tpl, t)
    \/ \E ts \in BuilderTicketLists : BuildKnowledgeGraph(ts)
    \/ ParseTickets
    \/ IntraTicketTrees
    \/ InterTicketGraph
    \/ Combine

SpecBuilder == InitBuilder /\ [][NextBuilder]_vars

(***************************************************************************)
(* GraphLogger and the builds of several instances in one process          *)
(***************************************************************************)
\* the most instances constructed in a process
MaxInstances == 2

RECURSIVE TicketEventsFrom(_, _, _)
\* lines 243-263 of build_graph: the events of the tickets from position p on
TicketEventsFrom(ts, tpl, p) ==
    IF p > Len(ts) THEN <<>>
    ELSE (IF ParseRaises(ts[p])
          THEN <<LogEntry("error", GetDefault(ts[p], "id", <<"u", "n", "k", "n", "o", "w", "n">>), <<>>)>>
          ELSE <<LogEntry("ticket",
                          ConstructTicketTree(ParseTicketWithRules(ts[p])
                                              \o ParseTicketWithLlm(LlmStub, ts[p], tpl)).id,
                          <<>>)>>)
         \o TicketEventsFrom(ts, tpl, p + 1)

RECURSIVE TreesFrom(_, _, _)
\* lines 243-263 of build_graph: the trees of the tickets from position p on
TreesFrom(ts, tpl, p) ==
    IF p > Len(ts) THEN <<>>
    ELSE (IF ParseRaises(ts[p]) THEN <<>>
          ELSE <<ConstructTicketTree(ParseTicketWithRules(ts[p])
                                     \o ParseTicketWithLlm(LlmStub, ts[p], tpl))>>)
         \o TreesFrom(ts, tpl, p + 1)

RECURSIVE ImplicitFrom(_, _, _, _)
\* find_implicit_connections(trees): the pairs (a, b), (a, b + 1), ... in the order of the
\* two loops
ImplicitFrom(ts, t, a, b) ==
    IF a > Len(ts) THEN <<>>
    ELSE IF b > Len(ts) THEN ImplicitFrom(ts, t, a + 1, a + 2)
    ELSE (IF Emits(CalculateSimilarity(ts[a], ts[b]), t)
          THEN <<<<ts[a].id, ts[b].id, CalculateSimilarity(ts[a], ts[b])>>>>
          ELSE <<>>)
         \o ImplicitFrom(ts, t, a, b + 1)

\* the events a build_graph(tickets, template) gives to self.logger, in their order; the
\* KeyError of find_explicit_connections ends the build after the events of the tickets
BuildEvents(ts, tpl, t) ==
    TicketEventsFrom(ts, tpl, 1)
    \o (IF FindExplicitRaises(ts) THEN <<>>
        ELSE ConnectionLog("explicit", FindExplicitConnections(ts))
             \o ConnectionLog("implicit", ImplicitFrom(TreesFrom(ts, tpl, 1), t, 1, 2)))

\* the times on the clock at a construction, in seconds: the time of the construction
\* before, or a later one
Timestamps(insts) ==
    IF insts = <<>> THEN {1} ELSE {insts[Len(insts)].log_file, insts[Len(insts)].log_file + 1}

\* logging.FileHandler(log_file): the file exists from then on, what it holds is kept
Opened(fs, log_file) ==
    IF log_file \in DOMAIN fs THEN fs ELSE [f \in (DOMAIN fs) \cup {log_file} |-> IF f = log_file THEN <<>> ELSE fs[f]]

\* the number of the handlers hs that write to the file
HandlersOf(hs, log_file) == Cardinality({h \in 1..Len(hs) : hs[h] = log_file})

\* Logger.info / Logger.error of one record: every handler of the logger writes it to its file
Handle(fs, hs, record) ==
    [f \in DOMAIN fs |-> fs[f] \o [h \in 1..HandlersOf(hs, f) |-> record]]

RECURSIVE HandleFrom(_, _, _, _)
\* the records from position p on, one after the other
HandleFrom(fs, hs, records, p) ==
    IF p > Len(records) THEN fs
    ELSE HandleFrom(Handle(fs, hs, records[p]), hs, records, p + 1)

(***************************************************************************)
(* IssueKnowledgeGraph instances of one process and their log files        *)
(***************************************************************************)
InitLogger ==
    /\ pc = "process" /\ self = <<>> /\ threshold = FloatZero
    /\ NoBuild /\ NoTree /\ NoCode /\ NoExt

\* IssueKnowledgeGraph(embedding_model, t): the ValueError of a threshold out of range, else
\* GraphLogger() names its file by the second of the clock and adds a handler for it to the
\* logger "GraphGenerator" of the process
LoggerConstruct(t, timestamp) ==
    /\ pc = "process" /\ Len(instances) < MaxInstances
    /\ timestamp \in Timestamps(instances)
    /\ threshold' = t
    /\ IF ThresholdInRange(t)
       THEN /\ instances' = Append(instances, [similarity_threshold |-> t, log_file |-> timestamp])
            /\ handlers' = Append(handlers, timestamp)
            /\ files' = Opened(files, timestamp)
       ELSE UNCHANGED <<instances, handlers, files>>
    /\ UNCHANGED <<pc, self, buildVars, treeVars, codeVars, titleVars, parseVars, llm, G, history,
                   embedVars, builderVars, runs>>

\* build_graph(ts, tpl) of the instance at position n, from its call to its end
LoggerBuild(n, ts, tpl) ==
    /\ pc = "process" /\ Len(runs) < MaxBuilds
    /\ n \in 1..Len(instances)
    /\ LET entries == BuildEvents(ts, tpl, instances[n].similarity_threshold)
           records == [p \in 1..Len(entries) |->
                          [run |-> Len(runs) + 1, position |-> p, entry |-> entries[p]]]
       IN  /\ runs' = Append(runs, [instance |-> n, entries |-> entries])
           /\ files' = HandleFrom(files, handlers, records, 1)
    /\ UNCHANGED <<pc, self, threshold, buildVars, treeVars, codeVars, titleVars, parseVars, llm,
                   G, history, embedVars, builderVars, instances, handlers>>

NextLogger ==
    \/ \E t \in RebuildThresholds \cup {<<11, 10>>}, timestamp \in 1..MaxInstances :
           LoggerConstruct(t, timestamp)
    \/ \E n \in 1..MaxInstances, ts \in RebuildTicketLists, tpl \in TemplateUniverse :
           LoggerBuild(n, ts, tpl)

SpecLogger == InitLogger /\ [][NextLogger]_vars

(***************************************************************************)
(* Properties                                                              *)
(***************************************************************************)
\* the positions of the "contains" edges of tree t that end at the fragment at position p
IncomingContains(t, p) ==
    {e \in 1..Len(t.edges) : t.edges[e][3] = "contains" /\ t.edges[e][2] = t.nodes[p].id}

\* the fragments of tree t without an incoming "contains" edge
Roots(t) == {p \in 1..Len(t.nodes) : IncomingContains(t, p) = {}}

\* C1: for every non-empty fragment sequence the tree built by construct_ticket_tree has
\* exactly one root (a fragment without an incoming "contains" edge), every other fragment
\* has exactly one incoming "contains" edge, and no "contains" edge ends where one starts
C1_TreeHasOneRoot ==
    (pc = "tree_done" /\ nodes # <<>>) =>
        LET t == tree[1]
        IN  /\ Cardinality(Roots(t)) = 1
            /\ \A p \in 1..Len(t.nodes) : p \notin Roots(t) => Cardinality(IncomingContains(t, p)) = 1
            /\ \A e, f \in 1..Len(t.edges) :
                   (t.edges[e][3] = "contains" /\ t.edges[f][3] = "contains")
                       => t.edges[e][2] # t.edges[f][1]

\* the embedding of the representative text of the tree at position p
EmbeddingOf(p) == Embed(GetTicketTitle(trees[p]))

\* the cosine similarity of two embeddings as the specification defines it: 0 when a norm is 0
DefinedSimilarity(vec1, vec2) ==
    IF Dot(vec1, vec1) = 0 \/ Dot(vec2, vec2) = 0 THEN FloatZero
    ELSE <<Dot(vec1, vec2), Norm(vec1) * Norm(vec2)>>

\* C2: a scored pair of trees has an implicit connection if and only if the cosine
\* similarity of the two trees' embeddings is at least the threshold (equality included)
C2_EmittedIffAtLeastThreshold ==
    \A n \in 1..Len(scored) :
        scored[n].emitted <=>
            /\ EmbeddingOf(scored[n].i).ok /\ EmbeddingOf(scored[n].j).ok
            /\ FloatGE(DefinedSimilarity(EmbeddingOf(scored[n].i).vec, EmbeddingOf(scored[n].j).vec),
                       self[1].similarity_threshold)

\* C3: the implicit connections build_graph returns hold each unordered pair of ticket ids
\* at most once
C3_UnorderedPairOnce ==
    pc = "done" =>
        LET ic == result[1].implicit_connections
        IN  \A m, n \in 1..Len(ic) : m # n => {ic[m][1], ic[m][2]} # {ic[n][1], ic[n][2]}

\* the number of link records of a ticket
LinkCount(ticket) == IF "links" \in DOMAIN ticket THEN Len(ticket.links) ELSE 0

RECURSIVE LinksBefore(_, _)
\* the number of link records of the tickets before position n
LinksBefore(ts, n) == IF n <= 1 THEN 0 ELSE LinksBefore(ts, n - 1) + LinkCount(ts[n - 1])

\* C4: the explicit connections are one triple (ticket id, linked ticket id, label) per link
\* record, in ticket order then link order, as many triples as there are link records
C4_ExplicitProjection ==
    pc \in {"implicit", "done"} =>
        /\ Len(explicit_connections) = LinksBefore(tickets, Len(tickets) + 1)
        /\ \A n \in 1..Len(tickets) : \A l \in 1..LinkCount(tickets[n]) :
               explicit_connections[LinksBefore(tickets, n) + l]
                   = <<tickets[n].id, tickets[n].links[l].ticket_id, tickets[n].links[l].relationship>>
        /\ pc = "done" => result[1].explicit_connections = explicit_connections

\* C4's case: a returned list with a doubled triple and a triple whose target is no given ticket
C4_Witness ==
    /\ pc = "done"
    /\ \E m, n \in 1..Len(explicit_connections) :
           m # n /\ explicit_connections[m] = explicit_connections[n]
    /\ \E m \in 1..Len(explicit_connections) :
           \A n \in 1..Len(tickets) :
               "id" \in DOMAIN tickets[n] => tickets[n].id # explicit_connections[m][2]

\* a fence marker line
IsMarker(line) == line = Fence \/ line = Tilde

\* a non-blank line without leading indentation that is no marker line
IsPlainContent(line) == Strip(line) # <<>> /\ ~IsSpace(line[1]) /\ ~IsFenceLine(line)

\* a marker line, one or more plain content lines, a marker line
IsFencedBlock(ls) ==
    /\ Len(ls) >= 3 /\ IsMarker(ls[1]) /\ IsMarker(ls[Len(ls)])
    /\ \A n \in 2..(Len(ls) - 1) : IsPlainContent(ls[n])

\* C5: a description that is one fenced block yields exactly one Code fragment, whose
\* content is the block's content lines joined by newlines
C5_FencedBlockExtracted ==
    (pc = "code_done" /\ IsFencedBlock(Split(text, "\n"))) =>
        code_sections = <<Join(SubSeq(Split(text, "\n"), 2, Len(Split(text, "\n")) - 1), "\n")>>

\* the positions of the tickets without an 'id'
WithoutId(ts) == {n \in 1..Len(ts) : "id" \notin DOMAIN ts[n]}

\* C6: with a ticket without an 'id' in the list, build_graph does not raise, and returns
\* one tree for each ticket that has an id with one error recorded per ticket that has none
C6_IdlessTicketIsolated ==
    WithoutId(tickets) # {} =>
        /\ pc # "raised"
        /\ pc = "done" =>
               /\ Len(result[1].trees) = Len(tickets) - Cardinality(WithoutId(tickets))
               /\ Cardinality({n \in 1..Len(log) : log[n].kind = "error"})
                      = Cardinality(WithoutId(tickets))

\* C7: cosine_similarity of two vectors of which one has zero norm is 0, and is not NaN
C7_ZeroNormGivesZero ==
    \A n \in 1..Len(scored) :
        ( /\ EmbeddingOf(scored[n].i).ok /\ EmbeddingOf(scored[n].j).ok
          /\ \/ Norm(EmbeddingOf(scored[n].i).vec) = 0
             \/ Norm(EmbeddingOf(scored[n].j).vec) = 0 )
        => (~IsNaN(scored[n].similarity) /\ scored[n].similarity[1] = 0)

\* C8: in one pass of find_implicit_connections embed is called at most once for each tree
C8_EmbedOncePerTree == \A p \in DOMAIN embed_calls : embed_calls[p] <= 1

\* C9: a pair with a tree whose embedding failed has no implicit connection, whatever the
\* threshold, and the failure does not leave build_graph
C9_FailedTreeExcluded ==
    \A n \in 1..Len(scored) :
        (~EmbeddingOf(scored[n].i).ok \/ ~EmbeddingOf(scored[n].j).ok) => ~scored[n].emitted

\* a float in [0, 1]
InUnitInterval(x) == x[2] > 0 /\ 0 <= x[1] /\ x[1] <= x[2]

\* C10: __init__ raises and leaves no instance exactly for a threshold outside [0, 1];
\* every instance has its similarity_threshold in [0, 1]
C10_ThresholdInUnitInterval ==
    /\ self # <<>> => InUnitInterval(self[1].similarity_threshold)
    /\ pc = "ctor_raised" => (self = <<>> /\ ~InUnitInterval(threshold))
    /\ (pc # "new" /\ InUnitInterval(threshold)) =>
           (self # <<>> /\ self[1].similarity_threshold = threshold)

\* C10's case: the constructor refused the threshold 1.1
C10_Witness == pc = "ctor_raised" /\ threshold = <<11, 10>>

\* the positions of the fragments of tree t with the section tag sec
Tagged(t, sec) == {p \in 1..Len(t.nodes) : t.nodes[p].section = sec}

\* the least position of a non-empty set of positions
First(ps) == CHOOSE p \in ps : \A q \in ps : p <= q

\* the first n characters of s, all of s when it has fewer
FirstChars(s, n) == [m \in {q \in 1..Len(s) : q <= n} |-> s[m]]

\* C11: get_ticket_title returns the content of the tree's first Summary fragment when the
\* tree has one, wherever it stands among the fragments; else the first 50 characters of
\* the first Description fragment; else the tree id
C11_TitlePrefersSummary ==
    pc = "title_done" =>
        LET t == tree[1]
        IN  title[1] = IF Tagged(t, SUMMARY) # {} THEN t.nodes[First(Tagged(t, SUMMARY))].content
                       ELSE IF Tagged(t, DESCRIPTION) # {}
                       THEN FirstChars(t.nodes[First(Tagged(t, DESCRIPTION))].content, 50)
                       ELSE t.id

\* the position in trees of the tree of the ticket at position n: the trees are appended in
\* ticket order, one for each ticket with an 'id'
TreeOf(ts, n) == Cardinality({m \in 1..n : "id" \in DOMAIN ts[m]})

\* C12: the tree built from the fragments of a ticket with identifier T that yields at
\* least one fragment has the identifier T, whatever characters T holds
C12_TreeIdIsTicketId ==
    \A n \in 1..(k - 1) :
        ("id" \in DOMAIN tickets[n] /\ trees[TreeOf(tickets, n)].nodes # <<>>)
            => trees[TreeOf(tickets, n)].id = tickets[n].id

\* the position of the fragment the specification makes the root of tree t
ExpectedRoot(t) == IF Tagged(t, SUMMARY) # {} THEN First(Tagged(t, SUMMARY)) ELSE 1

\* C13: every "contains" edge of the tree starts at the first fragment tagged Summary, or
\* at the first fragment when none is tagged Summary, and that root has a "contains" edge
\* to every fragment that differs from it
C13_RootIsFirstSummary ==
    (pc \in {"tree_done", "title_done"} /\ nodes # <<>>) =>
        LET t == tree[1]
            root == nodes[ExpectedRoot(t)]
        IN  /\ t.nodes = nodes
            /\ \A e \in 1..Len(t.edges) : t.edges[e][3] = "contains" => t.edges[e][1] = root.id
            /\ \A p \in 1..Len(nodes) :
                   nodes[p] # root =>
                       \E e \in 1..Len(t.edges) : t.edges[e] = <<root.id, nodes[p].id, "contains">>

\* C13's case: a tree whose first fragment is no Summary while a later one is, with a
\* "contains" edge from that Summary back to the first fragment
C13_Witness ==
    /\ pc = "tree_done" /\ Len(nodes) >= 2
    /\ nodes[1].section # SUMMARY /\ Tagged(tree[1], SUMMARY) # {}
    /\ \E e \in 1..Len(tree[1].edges) :
           tree[1].edges[e] = <<nodes[ExpectedRoot(tree[1])].id, nodes[1].id, "contains">>

\* an edge labelled "has_code"
IsHasCode(edge) == edge[3] = "has_code"

\* a fragment tagged Code
IsCode(node) == node.section = CODE

\* C14: the "has_code" edges of the tree are one per fragment tagged Code, in fragment
\* order, each from the first fragment tagged Description to that Code fragment; without a
\* Description fragment there is none, and every edge is a "contains" edge
C14_HasCodeFromFirstDescription ==
    (pc \in {"tree_done", "title_done"} /\ nodes # <<>>) =>
        LET t == tree[1]
            has_code == SelectSeq(t.edges, IsHasCode)
            code == SelectSeq(nodes, IsCode)
        IN  /\ \A e \in 1..Len(t.edges) : t.edges[e][3] \in {"contains", "has_code"}
            /\ IF Tagged(t, DESCRIPTION) = {} THEN has_code = <<>>
               ELSE /\ Len(has_code) = Len(code)
                    /\ \A m \in 1..Len(code) :
                           has_code[m] = <<nodes[First(Tagged(t, DESCRIPTION))].id, code[m].id,
                                           "has_code">>

\* C14's case: a Code fragment after two Description fragments with different ids, tied
\* to the first of them
C14_Witness ==
    /\ pc = "tree_done" /\ Len(nodes) = 3
    /\ nodes[1].section = DESCRIPTION /\ nodes[2].section = DESCRIPTION
    /\ nodes[1].id # nodes[2].id /\ nodes[3].section = CODE
    /\ tree[1].edges[Len(tree[1].edges)] = <<nodes[1].id, nodes[3].id, "has_code">>

\* the place of a section in the order Summary, Description, Priority, Code
Rank(section) ==
    CASE section = SUMMARY -> 1 [] section = DESCRIPTION -> 2 [] section = PRIORITY -> 3
      [] section = CODE -> 4 [] OTHER -> 0

\* the identifier suffix of a section that yields one fragment
Suffix(section) ==
    CASE section = SUMMARY -> S_summary [] section = DESCRIPTION -> S_description
      [] section = PRIORITY -> S_priority

\* the decimal digits of n, for n below 100
Digits(n) ==
    LET d == <<"0", "1", "2", "3", "4", "5", "6", "7", "8", "9">>
    IN  IF n < 10 THEN <<d[n + 1]>> ELSE <<d[(n \div 10) + 1], d[(n % 10) + 1]>>

\* C15: the fragments parse_ticket_with_rules returns are in the order Summary,
\* Description, Priority, then the Code fragments; the first three have the identifiers
\* <id>_summary, <id>_description, <id>_priority and the Code fragments <id>_code_0,
\* <id>_code_1, ... in the order of appearance of the code blocks in the description
C15_FragmentOrderAndIds ==
    pc = "parse_done" =>
        LET ns == parsed[1]
            id == parse_ticket.id
            code == SelectSeq(ns, IsCode)
        IN  /\ \A p \in 1..Len(ns) : Rank(ns[p].section) > 0
            /\ \A p, q \in 1..Len(ns) :
                   p < q => \/ Rank(ns[p].section) < Rank(ns[q].section)
                            \/ (ns[p].section = CODE /\ ns[q].section = CODE)
            /\ \A p \in 1..Len(ns) :
                   ns[p].section # CODE => ns[p].id = id \o Suffix(ns[p].section)
            /\ \A m \in 1..Len(code) : code[m].id = id \o S_code \o Digits(m - 1)
            /\ Tagged([nodes |-> ns], DESCRIPTION) # {} =>
                   [m \in 1..Len(code) |-> code[m].content]
                       = ExtractCodeSections(ns[First(Tagged([nodes |-> ns], DESCRIPTION))].content)

\* C15's case: a ticket with all three sections and two code blocks in its description
C15_Witness ==
    /\ pc = "parse_done" /\ Len(parsed[1]) = 5
    /\ parsed[1][1].id = parse_ticket.id \o S_summary
    /\ parsed[1][4].content = <<"a">> /\ parsed[1][5].content = <<"b">>
    /\ parsed[1][5].id = parse_ticket.id \o S_code \o <<"1">>

\* the aliases of a canonical section, in priority order
Aliases(section) ==
    CASE section = SUMMARY -> <<"Summary", "summary", "title">>
      [] section = DESCRIPTION -> <<"Description", "description", "text">>
      [] section = PRIORITY -> <<"Priority", "priority">>

\* the positions of the aliases under which the ticket has a non-empty value
NonEmptyAliases(ticket, aliases) ==
    {n \in 1..Len(aliases) : aliases[n] \in DOMAIN ticket /\ ticket[aliases[n]] # <<>>}

\* C16: for each of Summary, Description and Priority the fragments hold exactly one
\* fragment of that section, with the value of the first alias (in priority order) whose
\* value is non-empty, and none of that section when no alias has a non-empty value
C16_FirstNonEmptyAlias ==
    pc = "parse_done" =>
        \A section \in {SUMMARY, DESCRIPTION, PRIORITY} :
            LET t == [nodes |-> parsed[1]]
                ps == NonEmptyAliases(parse_ticket, Aliases(section))
            IN  IF ps = {} THEN Tagged(t, section) = {}
                ELSE /\ Cardinality(Tagged(t, section)) = 1
                     /\ t.nodes[First(Tagged(t, section))].content
                            = parse_ticket[Aliases(section)[First(ps)]]

\* C16's case: an empty 'Summary' before a 'summary' and a 'title' that both have a value,
\* and the fragment made from 'summary'
C16_Witness ==
    /\ pc = "parse_done"
    /\ {"Summary", "summary", "title"} \subseteq DOMAIN parse_ticket
    /\ parse_ticket["Summary"] = <<>> /\ parse_ticket["summary"] = <<"s">>
    /\ parse_ticket["title"] = <<"t">>
    /\ parsed[1][1] = TicketNode(parse_ticket.id \o S_summary, SUMMARY, <<"s">>)

\* the ticket has no identifier, or an empty one
NoIdentifier(ticket) == IF "id" \in DOMAIN ticket THEN ticket.id = <<>> ELSE TRUE

\* C17: parse_ticket_with_rules raises, and returns no fragments, exactly for the tickets
\* whose identifier is absent or empty
C17_EmptyIdRejected ==
    pc # "parse_call" => (NoIdentifier(parse_ticket) <=> (pc = "parse_raised" /\ parsed = <<>>))

FragmentKeys(kg) ==
    UNION { {<<kg.trees[m].id, kg.trees[m].nodes[p].id>> : p \in 1..Len(kg.trees[m].nodes)} :
            m \in 1..Len(kg.trees) }

\* the attachment point of a ticket id: the key of the Summary fragment of its tree, else
\* of the tree's Description fragment, else None
AttachPoint(kg, ticket_id) ==
    LET ms == {m \in 1..Len(kg.trees) : kg.trees[m].id = ticket_id}
    IN  IF ms = {} THEN None
        ELSE LET t == kg.trees[First(ms)]
             IN  IF Tagged(t, SUMMARY) # {}
                 THEN <<ticket_id, t.nodes[First(Tagged(t, SUMMARY))].id>>
                 ELSE IF Tagged(t, DESCRIPTION) # {}
                 THEN <<ticket_id, t.nodes[First(Tagged(t, DESCRIPTION))].id>>
                 ELSE None

\* the edge the specification materializes for a connection, if any
AttachedEdge(kg, conn, attrs) ==
    IF AttachPoint(kg, conn[1]) # None /\ AttachPoint(kg, conn[2]) # None
    THEN <<[u |-> AttachPoint(kg, conn[1]), v |-> AttachPoint(kg, conn[2]), attrs |-> attrs]>>
    ELSE <<>>

\* the attributes of the edge of a connection of the given type
ConnectionAttrs(type, conn) ==
    IF type = "explicit" THEN EdgeAttrs(type, conn[3], None) ELSE EdgeAttrs(type, None, conn[3])

RECURSIVE AttachedEdges(_, _, _, _)
\* the edges the specification materializes for the connections from position n on
AttachedEdges(kg, conns, type, n) ==
    IF n > Len(conns) THEN <<>>
    ELSE AttachedEdge(kg, conns[n], ConnectionAttrs(type, conns[n]))
         \o AttachedEdges(kg, conns, type, n + 1)

\* an edge that stands for a ticket-level connection
IsConnectionEdge(edge) == edge.attrs.type # "hierarchical"

\* C19: in the graph create_networkx_graph makes of a KnowledgeGraph every node is a
\* fragment of some tree, and the connection edges are one per connection whose two sides
\* both have an attachment point (the Summary fragment, else the Description fragment),
\* between those two points, and none for a connection with a side that has none
C19_ConnectionsAttachToFragments ==
    pc = "resolved" =>
        /\ DOMAIN G[1].nodes \subseteq FragmentKeys(result[1])
        /\ SelectSeq(G[1].edges, IsConnectionEdge)
               = AttachedEdges(result[1], result[1].explicit_connections, "explicit", 1)
                 \o AttachedEdges(result[1], result[1].implicit_connections, "implicit", 1)

\* the ids of the trees of a KnowledgeGraph
TreeIds(kg) == {kg.trees[m].id : m \in 1..Len(kg.trees)}

\* C20: among the calls of build_graph made on one instance, two with the same tickets and
\* template end alike (equal graphs, or both raising), and the graph a call returns has
\* one tree per ticket with an id of that call, one explicit connection per link record
\* of that call, and implicit connections between trees of that call only
C20_StatelessRecomputation ==
    /\ \A a, b \in 1..Len(history) :
           (history[a].tickets = history[b].tickets /\ history[a].template = history[b].template)
               => history[a].result = history[b].result
    /\ \A a \in 1..Len(history) :
           history[a].result # <<>> =>
               LET kg == history[a].result[1]
                   ts == history[a].tickets
               IN  /\ Len(kg.trees) = Len(ts) - Cardinality(WithoutId(ts))
                   /\ \A m \in 1..Len(kg.trees) : \E n \in 1..Len(ts) :
                          "id" \in DOMAIN ts[n] /\ kg.trees[m].id = ts[n].id
                   /\ Len(kg.explicit_connections) = LinksBefore(ts, Len(ts) + 1)
                   /\ \A n \in 1..Len(kg.implicit_connections) :
                          {kg.implicit_connections[n][1], kg.implicit_connections[n][2]}
                              \subseteq TreeIds(kg)

\* C20's case: two calls with the same two tickets, after which an implicit connection
\* was returned both times, with another call between them or before them
C20_Witness ==
    /\ Len(history) >= 2
    /\ \E a, b \in 1..Len(history) :
           /\ a < b /\ history[a].tickets = history[b].tickets
           /\ history[a].result # <<>> /\ history[a].result = history[b].result
           /\ Len(history[a].result[1].implicit_connections) = 1

\* the similarity of the trees at positions p and q as the outcomes of their embeddings
\* give it: 0.0 when one of them failed
OutcomeSimilarity(p, q) ==
    IF EmbeddingOf(p).ok /\ EmbeddingOf(q).ok
    THEN CosineSimilarity(EmbeddingOf(p).vec, EmbeddingOf(q).vec)
    ELSE FloatZero

\* the pairs p < q of tree positions, in the order of the loops
PairsInOrder(n) ==
    LET Before(a, b) == a[1] < b[1] \/ (a[1] = b[1] /\ a[2] < b[2])
        ps == {pq \in (1..n) \X (1..n) : pq[1] < pq[2]}
    IN  [m \in 1..Cardinality(ps) |->
            CHOOSE pq \in ps : Cardinality({o \in ps : Before(o, pq)}) = m - 1]

\* a pair whose similarity reaches the threshold
Reaches(pq) == Emits(OutcomeSimilarity(pq[1], pq[2]), self[1].similarity_threshold)

\* C21: at most one embed request is pending at a time, so the requests end in one order
\* only; a pair is scored only when an embed request has ended (resolved or failed) for
\* each of its two trees; and the connections returned are those the threshold and the
\* outcomes of the trees' embeddings determine
C21_ScoredAfterBothEmbeddings ==
    /\ emb # <<"pending", "pending">>
    /\ pc = "scored" => {i, j} \subseteq settled
    /\ pc = "implicit_done" =>
           LET reached == SelectSeq(PairsInOrder(Len(trees)), Reaches)
           IN  connections = [m \in 1..Len(reached) |->
                                 <<trees[reached[m][1]].id, trees[reached[m][2]].id,
                                   OutcomeSimilarity(reached[m][1], reached[m][2])>>]

\* the identifiers of the fragments of tree t
NodeIds(t) == {t.nodes[p].id : p \in 1..Len(t.nodes)}

\* C22: both ends of every edge of the tree construct_ticket_tree returns are identifiers
\* of fragments of that tree's node list
C22_EdgesWithinTree ==
    pc \in {"tree_done", "title_done"} =>
        \A e \in 1..Len(tree[1].edges) :
            tree[1].edges[e][1] \in NodeIds(tree[1]) /\ tree[1].edges[e][2] \in NodeIds(tree[1])

\* C22's case: a tree with a "contains" edge and a "has_code" edge
C22_Witness ==
    /\ pc = "tree_done"
    /\ \E e, f \in 1..Len(tree[1].edges) :
           tree[1].edges[e][3] = "contains" /\ tree[1].edges[f][3] = "has_code"

\* a line with the 4-space indentation
IsIndented(line) == Len(line) >= 4 /\ \A n \in 1..4 : line[n] = " "

\* a line that ends a run of indented lines: not indented and not blank
EndsRun(line) == ~IsIndented(line) /\ \E n \in 1..Len(line) : ~IsSpace(line[n])

\* the position of the first line after position p that ends a run, Len(ls) + 1 if none
RunEnd(ls, p) ==
    First({q \in (p + 1)..(Len(ls) + 1) : q = Len(ls) + 1 \/ EndsRun(ls[q])})

RECURSIVE Runs(_, _)
\* the maximal runs of ls from position p on, each with its lines stripped and joined
Runs(ls, p) ==
    IF p > Len(ls) THEN <<>>
    ELSE IF IsIndented(ls[p])
    THEN <<Join([n \in 1..(RunEnd(ls, p) - p) |-> Strip(ls[p + n - 1])], "\n")>>
         \o Runs(ls, RunEnd(ls, p))
    ELSE Runs(ls, p + 1)

\* the lines of the text hold no fence marker
NoFenceMarker(ls) == \A n \in 1..Len(ls) : ~IsFenceLine(ls[n])

\* C23: for a text without fence markers the code sections are, in order, the maximal runs
\* of lines that start at an indented line and end before the next non-indented non-blank
\* line, each with the leading whitespace of its lines stripped
C23_IndentedRunsExtracted ==
    (pc = "code_done" /\ NoFenceMarker(Split(text, "\n"))) =>
        code_sections = Runs(Split(text, "\n"), 1)

\* C23's case: a text of two runs, the first with a blank line inside
C23_Witness ==
    /\ pc = "code_done" /\ NoFenceMarker(Split(text, "\n"))
    /\ Len(code_sections) = 2
    /\ \E n \in 1..Len(code_sections[1]) : code_sections[1][n] = "\n"

\* the extraction fails on a section of the template
ExtractionFails(tpl) ==
    \E n \in 1..Len(GetDefault(tpl, "sections", <<>>)) : llm[tpl.sections[n].name] = Raised

LinkRecords(ts) ==
    {<<n, p>> \in (1..Len(ts)) \X (1..MaxTickets) :
        "links" \in DOMAIN ts[n] /\ p <= Len(ts[n].links)}

\* the link records of ts that say the same as the record at <<n, p>>
SameLinks(ts, n, p) ==
    {r \in LinkRecords(ts) :
        /\ ts[r[1]].id = ts[n].id
        /\ ts[r[1]].links[r[2]] = ts[n].links[p]}

\* the edges of g of type 'explicit' from the Summary of u to the Summary of v that carry
\* the relationship label
ExplicitEdges(g, u, v, relationship) ==
    {e \in 1..Len(g.edges) :
        /\ g.edges[e].u = <<u, "Summary">> /\ g.edges[e].v = <<v, "Summary">>
        /\ DOMAIN g.edges[e].attrs = {"type", "relationship"}
        /\ g.edges[e].attrs.type = "explicit"
        /\ g.edges[e].attrs.relationship = relationship}

\* C25: in the graph build_knowledge_graph returns every declared link record has an edge of
\* type 'explicit' of its own from the Summary of its ticket to the Summary of its target,
\* carrying its relationship label: as many such edges as link records that say the same
C25_ExplicitEdgePerLink ==
    pc = "builder_done" =>
        \A r \in LinkRecords(tickets) :
            LET link == tickets[r[1]].links[r[2]]
            IN  Cardinality(ExplicitEdges(combined[1], tickets[r[1]].id, link.target_id, link.type))
                    >= Cardinality(SameLinks(tickets, r[1], r[2]))

\* C26: a KnowledgeGraphBuilder, and with it its GraphGenerator, exists only with a similarity
\* threshold in [0,1]: with any other threshold the construction fails, so that no ticket is
\* parsed or embedded
C26_BuilderThresholdInRange ==
    builder # <<>> => ThresholdInRange(builder[1].similarity_threshold)

\* the edges of g of type 'implicit' between the Summary fragments of the two tickets of
\* conn that carry its similarity score
ImplicitSummaryEdges(g, conn) ==
    {e \in 1..Len(g.edges) :
        /\ g.edges[e].u = SummaryKey(conn[1]) /\ g.edges[e].v = SummaryKey(conn[2])
        /\ g.edges[e].attrs = EdgeAttrs("implicit", None, conn[3])}

\* C27: create_networkx_graph makes an edge of type 'implicit' with the similarity score of
\* every implicit connection build_graph emitted whose two tickets both have a Summary
\* fragment, whatever the threshold of the instance
C27_ImplicitConnectionsMaterialized ==
    pc = "resolved" =>
        \A n \in 1..Len(result[1].implicit_connections) :
            LET conn == result[1].implicit_connections[n]
            IN  (SummaryKey(conn[1]) \in DOMAIN G[1].nodes /\ SummaryKey(conn[2]) \in DOMAIN G[1].nodes)
                    => ImplicitSummaryEdges(G[1], conn) # {}

\* the text has a line that is not blank
HasNonBlankLine(content) ==
    \E n \in 1..Len(Split(content, "\n")) : Strip(Split(content, "\n")[n]) # <<>>

\* C28: every code section _extract_code_sections returns, the content of a Code fragment,
\* is not empty and has a line that is not blank
C28_CodeContentNotBlank ==
    pc = "code_done" =>
        \A n \in 1..Len(code_sections) :
            code_sections[n] # <<>> /\ HasNonBlankLine(code_sections[n])

\* the section names of the template are distinct
DistinctNames(tpl) ==
    \A a, b \in 1..Len(tpl.sections) : tpl.sections[a].name = tpl.sections[b].name => a = b

\* the content is one the template allows for its section at position n: any content for a
\* section that is not an enumeration, one of the listed values for an enumeration
Allowed(tpl, n, content) ==
    tpl.sections[n].type = "enum" =>
        /\ "values" \in DOMAIN tpl.sections[n]
        /\ \E v \in 1..Len(tpl.sections[n].values) : tpl.sections[n].values[v] = content

\* the section the parse has to hold for the template's section at position n
ExpectedSection(tpl, ticket, n) ==
    LET name == tpl.sections[n].name
    IN  IF name \in DOMAIN ticket /\ Allowed(tpl, n, ticket[name])
        THEN [name |-> name, content |-> ticket[name], metadata |-> [source |-> "predefined"]]
        ELSE [name |-> name, content |-> "",
              metadata |-> [source |-> "parsed", confidence |-> FloatZero]]

\* the template marks its section at position n as required
IsRequired(tpl, n) == "required" \in DOMAIN tpl.sections[n] /\ tpl.sections[n].required

\* C29: for a ticket with a 'text' field and a template with distinct section names the
\* result of parse_ticket holds every required section exactly once, as a 'predefined'
\* section when the ticket has a value for it that the template allows and else as an empty
\* 'parsed' placeholder, and every 'predefined' section of the result has an allowed content
C29_RequiredSectionsOnce ==
    (pc = "sections_done" /\ "text" \in DOMAIN parse_ticket /\ DistinctNames(template)) =>
        /\ \A n \in 1..Len(template.sections) :
               IsRequired(template, n) =>
                   LET found == {m \in 1..Len(parsed[1]) :
                                     parsed[1][m].name = template.sections[n].name}
                   IN  /\ Cardinality(found) = 1
                       /\ \A m \in found :
                              parsed[1][m] = ExpectedSection(template, parse_ticket, n)
        /\ \A m \in 1..Len(parsed[1]) :
               parsed[1][m].metadata.source = "predefined" =>
                   \E n \in 1..Len(template.sections) :
                       /\ template.sections[n].name = parsed[1][m].name
                       /\ Allowed(template, n, parsed[1][m].content)

\* C29's case: a required enumeration whose value in the ticket is not one of the listed
\* ones, next to a required section the ticket has a value for
C29_Witness ==
    /\ pc = "sections_done" /\ "text" \in DOMAIN parse_ticket /\ DistinctNames(template)
    /\ \E n \in 1..Len(template.sections) :
           /\ IsRequired(template, n)
           /\ template.sections[n].name \in DOMAIN parse_ticket
           /\ ~Allowed(template, n, parse_ticket[template.sections[n].name])
    /\ \E m \in 1..Len(parsed[1]) : parsed[1][m].metadata.source = "predefined"
    /\ \E m \in 1..Len(parsed[1]) : parsed[1][m].metadata.source = "parsed"

\* the number of times the record of event p of run r is in the file
Written(log_file, r, p) ==
    Cardinality({w \in 1..Len(files[log_file]) :
                    files[log_file][w].run = r /\ files[log_file][w].position = p})

\* C30: every event of every build is written exactly once to the log file of the instance
\* that ran the build and to no other file, however many instances the process has
\* constructed
C30_EventsOnceInOwnLog ==
    \A r \in 1..Len(runs) : \A p \in 1..Len(runs[r].entries) : \A f \in DOMAIN files :
        Written(f, r, p) = IF f = instances[runs[r].instance].log_file THEN 1 ELSE 0

=============================================================================
